---- MODULE Spec2Model ----
(***************************************************************************)
(* Model of elfprobe: the zero-copy casting core (Pod::from_bytes), the    *)
(* byte source (Reader::read_bytes / read_pod) and the ELF dispatcher      *)
(* (parse_elf).                                                            *)
(*                                                                         *)
(* Conventions.                                                            *)
(*  - A byte slice is a record [ptr, bytes]: its start address and its     *)
(*    contents.  A sub-slice taken at offset o has address ptr + o.        *)
(*  - A native integer is written as its sequence of base-256 digits, most *)
(*    significant digit first, so that 64-bit values need no wide          *)
(*    arithmetic and a byte swap is a reversal of the digits.              *)
(*  - usize is scaled down to 0..UsizeMax; additions on it either wrap     *)
(*    (overflow checks off) or panic (overflow checks on).                 *)
(***************************************************************************)
EXTENDS Integers, Sequences, FiniteSets, TLC

\* ------------------------------------------------------------------ bounds
MaxLen == 66
MaxAddr == 4
MaxClass == 2
MaxData == 2
UsizeMax == 255
MaxSmall == 9
MaxHigh == 2
MaxBufLen == 24
MaxSliceLen == 65
MaxPtr == 8
MaxSeed == 0
MaxDigit == 0
MaxSets == 2
MaxFd == 2
MaxFileLen == 3
MaxMap == 2
MaxEntsize == 65
MaxItems == 3
MaxRows == 2
MaxCells == 2

\* ------------------------------------------------------- program constants
EI_PAD == 7

Byte == 0..255
Endians == {"LE", "BE"}
Natives == {"little", "big"}

RECURSIVE Reverse(_)
Reverse(s) == IF s = <<>> THEN <<>> ELSE Append(Reverse(Tail(s)), Head(s))

\* Option / Result values
None == [kind |-> "None"]
Some(s) == [kind |-> "Some", ptr |-> s.ptr, bytes |-> s.bytes]
Panic == [kind |-> "Panic"]
Empty == [kind |-> "Err", error |-> "Empty"]
SizeOfMismatch(length, size_of) ==
  [kind |-> "Err", error |-> "SizeOfMismatch", length |-> length, size_of |-> size_of]
AlignOfMismatch(pointer, align_of) ==
  [kind |-> "Err", error |-> "AlignOfMismatch", pointer |-> pointer, align_of |-> align_of]
Ok(T, s) == [kind |-> "Ok", type |-> T, ptr |-> s.ptr, bytes |-> s.bytes]

\* ------------------------------------------------------------ byte order
\* {i,u}{16,32,64}::from_be_bytes / from_le_bytes / to_be_bytes / to_le_bytes
from_be_bytes(bytes) == bytes
from_le_bytes(bytes) == Reverse(bytes)
to_be_bytes(value) == value
to_le_bytes(value) == Reverse(value)
\* swap_bytes and {from,to}_{be,le} on a native integer of the target
swap_bytes(value) == Reverse(value)
from_be(value, native) == IF native = "big" THEN value ELSE swap_bytes(value)
from_le(value, native) == IF native = "little" THEN value ELSE swap_bytes(value)
to_be(value, native) == IF native = "big" THEN value ELSE swap_bytes(value)
to_le(value, native) == IF native = "little" THEN value ELSE swap_bytes(value)
\* the native integer found at some bytes of memory, and its bytes in memory
NativeLoad(bytes, native) == IF native = "big" THEN bytes ELSE Reverse(bytes)
NativeStore(value, native) == IF native = "big" THEN value ELSE Reverse(value)

\* AlignedEndianOperation::read / write
AlignedRead(endian, value, native) ==
  IF endian = "BE" THEN from_be(value, native) ELSE from_le(value, native)
AlignedWriteNative(endian, value, native) == value
AlignedWrite(endian, value, native) ==
  IF endian = "BE" THEN to_be(value, native) ELSE to_le(value, native)
\* UnalignedEndianOperation::read / write
UnalignedRead(endian, bytes) ==
  IF endian = "BE" THEN from_be_bytes(bytes) ELSE from_le_bytes(bytes)
UnalignedWrite(endian, value) ==
  IF endian = "BE" THEN to_be_bytes(value) ELSE to_le_bytes(value)

\* ------------------------------------------------------------ type layout
Primitives == {"u8", "i8", "u16", "i16", "u32", "i32", "u64", "i64"}
PrimSize(p) ==
  CASE p \in {"u8", "i8"} -> 1
    [] p \in {"u16", "i16"} -> 2
    [] p \in {"u32", "i32"} -> 4
    [] p \in {"u64", "i64"} -> 8

\* I16..U64: the aligned flavour stores the native integer, the unaligned
\* flavour stores a byte array of the same width.
Wrappers == {"U16", "I16", "U32", "I32", "U64", "I64"}
WrapperPrim(w) ==
  CASE w = "U16" -> "u16" [] w = "I16" -> "i16"
    [] w = "U32" -> "u32" [] w = "I32" -> "i32"
    [] w = "U64" -> "u64" [] w = "I64" -> "i64"

\* ElfType32 / ElfType64 associated types
Families == {"ElfType32", "ElfType64"}
RoleType(family, role) ==
  CASE role = "Half" -> "U16"
    [] role = "Word" -> "U32"
    [] role = "Sword" -> "I32"
    [] role = "Uchar" -> "u8"
    [] role \in {"Addr", "Off", "Xword"} -> IF family = "ElfType32" THEN "U32" ELSE "U64"

IdentFields ==
  << "ei_mag0", "ei_mag1", "ei_mag2", "ei_mag3", "ei_class", "ei_data",
     "ei_version", "ei_osabi", "ei_abiversion" >>
IdentSize == Len(IdentFields) + EI_PAD

HeaderFields ==
  << "e_type", "e_machine", "e_version", "e_entry", "e_phoff", "e_shoff",
     "e_flags", "e_ehsize", "e_phentsize", "e_phnum", "e_shentsize",
     "e_shnum", "e_shstrndx" >>
FieldRole(f) ==
  CASE f \in {"e_type", "e_machine", "e_ehsize", "e_phentsize", "e_phnum",
              "e_shentsize", "e_shnum", "e_shstrndx"} -> "Half"
    [] f \in {"e_version", "e_flags"} -> "Word"
    [] f = "e_entry" -> "Addr"
    [] f \in {"e_phoff", "e_shoff"} -> "Off"
FieldType(family, i) == RoleType(family, FieldRole(HeaderFields[i]))

HeaderTypes == {"ElfHeader<ElfType32>", "ElfHeader<ElfType64>"}
HeaderType(family) == IF family = "ElfType32" THEN "ElfHeader<ElfType32>"
                      ELSE "ElfHeader<ElfType64>"
FamilyOf(T) == IF T = "ElfHeader<ElfType32>" THEN "ElfType32" ELSE "ElfType64"

AlignUp(n, a) == ((n + a - 1) \div a) * a

\* size_of / align_of of the scalar types
ScalarSize(T) == IF T \in Wrappers THEN PrimSize(WrapperPrim(T)) ELSE PrimSize(T)
ScalarAlign(T, unaligned) ==
  IF T \in Wrappers THEN (IF unaligned THEN 1 ELSE PrimSize(WrapperPrim(T)))
  ELSE PrimSize(T)

\* #[repr(C)] layout of ElfHeader<family>: e_ident first, then each field at
\* the next multiple of its alignment.
RECURSIVE FieldOffset(_, _, _)
FieldOffset(family, i, unaligned) ==
  LET prev == IF i = 1 THEN IdentSize
              ELSE FieldOffset(family, i - 1, unaligned)
                     + ScalarSize(FieldType(family, i - 1))
  IN AlignUp(prev, ScalarAlign(FieldType(family, i), unaligned))
\* a #[repr(C)] aggregate is aligned as its most aligned field
HeaderAlign(family, unaligned) ==
  LET aligns == {ScalarAlign(FieldType(family, i), unaligned) : i \in 1..Len(HeaderFields)} \cup {1}
  IN CHOOSE a \in aligns : \A b \in aligns : a >= b
HeaderSize(family, unaligned) ==
  LET n == Len(HeaderFields)
  IN AlignUp(FieldOffset(family, n, unaligned) + ScalarSize(FieldType(family, n)),
             HeaderAlign(family, unaligned))

\* the Dada test aggregate of pod.rs: u64, u32, u16, u8 under #[repr(C)]
DadaFields == << "u64", "u32", "u16", "u8" >>
RECURSIVE DadaOffset(_)
DadaOffset(i) ==
  LET prev == IF i = 1 THEN 0 ELSE DadaOffset(i - 1) + PrimSize(DadaFields[i - 1])
  IN AlignUp(prev, PrimSize(DadaFields[i]))
DadaAlign ==
  LET aligns == {PrimSize(DadaFields[i]) : i \in 1..Len(DadaFields)}
  IN CHOOSE a \in aligns : \A b \in aligns : a >= b

ByteArrays == {"[u8; 2]", "[u8; 4]", "[u8; 8]"}
ByteArrayLen(T) == CASE T = "[u8; 2]" -> 2 [] T = "[u8; 4]" -> 4 [] T = "[u8; 8]" -> 8

PodTypes == Primitives \cup Wrappers \cup ByteArrays \cup HeaderTypes \cup {"Dada"}

size_of(T, unaligned) ==
  CASE T \in Primitives \cup Wrappers -> ScalarSize(T)
    [] T \in ByteArrays -> ByteArrayLen(T)
    [] T \in HeaderTypes -> HeaderSize(FamilyOf(T), unaligned)
    [] T = "Dada" ->
         AlignUp(DadaOffset(Len(DadaFields)) + PrimSize(DadaFields[Len(DadaFields)]),
                 DadaAlign)
align_of(T, unaligned) ==
  CASE T \in Primitives \cup Wrappers -> ScalarAlign(T, unaligned)
    [] T \in ByteArrays -> 1
    [] T \in HeaderTypes -> HeaderAlign(FamilyOf(T), unaligned)
    [] T = "Dada" -> DadaAlign


\* ------------------------------------------- #[repr(C)] layout, in general
\* items: the fields in declaration order, each with its size and alignment.
\* StructEnd is the offset just past field i: every field starts at the next
\* multiple of its alignment; the size is rounded up to the struct's
\* alignment, which is that of its most aligned field.
RECURSIVE StructEnd(_, _)
StructEnd(items, i) ==
  IF i = 0 THEN 0
  ELSE AlignUp(StructEnd(items, i - 1), items[i].align) + items[i].size
StructAlign(items) ==
  LET aligns == {items[i].align : i \in 1..Len(items)} \cup {1}
  IN CHOOSE a \in aligns : \A b \in aligns : a >= b
StructSize(items) == AlignUp(StructEnd(items, Len(items)), StructAlign(items))

\* ElfIdentification<ElfType>: nine ElfType::Uchar and ei_pad: [Uchar; 7]
IdentificationFields == Append(IdentFields, "ei_pad")
IdentificationCount(f) == IF f = "ei_pad" THEN EI_PAD ELSE 1
\* ElfType32<E>::Uchar and ElfType64<E>::Uchar do not depend on E
UcharType(family, endian) == RoleType(family, "Uchar")
IdentificationItemsFlat(family, endian, unaligned) ==
  [i \in 1..Len(IdentificationFields) |->
     [size |-> ScalarSize(UcharType(family, endian)),
      align |-> ScalarAlign(UcharType(family, endian), unaligned)]]
IdentificationItems(family, endian, unaligned) ==
  [i \in 1..Len(IdentificationFields) |->
     [size |-> ScalarSize(UcharType(family, endian))
                 * IdentificationCount(IdentificationFields[i]),
      align |-> ScalarAlign(UcharType(family, endian), unaligned)]]

\* ElfSection<ElfType>
SectionFields ==
  << "sh_name", "sh_type", "sh_flags", "sh_addr", "sh_offset", "sh_size",
     "sh_link", "sh_info", "sh_addralign", "sh_entsize" >>
SectionRole(f) ==
  CASE f \in {"sh_name", "sh_type", "sh_link", "sh_info"} -> "Word"
    [] f \in {"sh_flags", "sh_size", "sh_addralign", "sh_entsize"} -> "Xword"
    [] f = "sh_addr" -> "Addr"
    [] f = "sh_offset" -> "Off"
SectionItems(family, endian, unaligned) ==
  [i \in 1..Len(SectionFields) |->
     [size |-> ScalarSize(RoleType(family, SectionRole(SectionFields[i]))),
      align |-> ScalarAlign(RoleType(family, SectionRole(SectionFields[i])),
                            unaligned)]]

Structs == {"ElfIdentification", "ElfHeader", "ElfSection"}
\* std::mem::size_of::<Struct<Family<Endian>>>()
SizeOfStruct(struct, family, endian, unaligned) ==
  CASE struct = "ElfIdentification" ->
         StructSize(IdentificationItems(family, endian, unaligned))
    [] struct = "ElfHeader" -> HeaderSize(family, unaligned)
    [] struct = "ElfSection" -> StructSize(SectionItems(family, endian, unaligned))
\* std::mem::align_of::<Struct<Family<Endian>>>()
AlignOfStruct(struct, family, endian, unaligned) ==
  CASE struct = "ElfIdentification" ->
         StructAlign(IdentificationItems(family, endian, unaligned))
    [] struct = "ElfHeader" -> HeaderAlign(family, unaligned)
    [] struct = "ElfSection" -> StructAlign(SectionItems(family, endian, unaligned))

\* ------------------------------------------------- Pod, Reader (pure part)
\* <[u8]>::get(start..end)
GetIndexing(slice, start, end) ==
  IF start > end \/ end > Len(slice.bytes) THEN Panic
  ELSE Some([ptr |-> slice.ptr + start, bytes |-> SubSeq(slice.bytes, start + 1, end)])
Get(slice, start, end) ==
  IF start > end \/ end > Len(slice.bytes) THEN None
  ELSE Some([ptr |-> slice.ptr + start, bytes |-> SubSeq(slice.bytes, start + 1, end)])

ReadBytesSwapped(slice, size, offset, checks) ==
  LET sum == offset + size
  IN IF sum > UsizeMax
     THEN (IF checks THEN Panic ELSE Get(slice, size, sum % (UsizeMax + 1)))
     ELSE Get(slice, size, sum)
\* <&[u8] as Reader>::read_bytes: `offset + size` is a usize addition, which
\* panics when overflow checks are compiled in and wraps otherwise.
ReadBytes(slice, size, offset, checks) ==
  LET sum == offset + size
  IN IF sum > UsizeMax
     THEN (IF checks THEN Panic ELSE Get(slice, offset, sum % (UsizeMax + 1)))
     ELSE Get(slice, offset, sum)

FromBytesSwapped(slice, T, cfg_unaligned, checks) ==
  IF Len(slice.bytes) # size_of(T, cfg_unaligned)
  THEN SizeOfMismatch(size_of(T, cfg_unaligned), Len(slice.bytes))
  ELSE IF ~cfg_unaligned /\ slice.ptr % align_of(T, cfg_unaligned) # 0
  THEN AlignOfMismatch(slice.ptr, align_of(T, cfg_unaligned))
  ELSE IF slice.ptr % align_of(T, cfg_unaligned) # 0 /\ checks
  THEN Panic
  ELSE Ok(T, slice)
FromBytesCopied(slice, T, cfg_unaligned, checks) ==
  IF Len(slice.bytes) # size_of(T, cfg_unaligned)
  THEN SizeOfMismatch(Len(slice.bytes), size_of(T, cfg_unaligned))
  ELSE IF ~cfg_unaligned /\ slice.ptr % align_of(T, cfg_unaligned) # 0
  THEN AlignOfMismatch(slice.ptr, align_of(T, cfg_unaligned))
  ELSE IF slice.ptr % align_of(T, cfg_unaligned) # 0 /\ checks
  THEN Panic
  ELSE Ok(T, [ptr |-> slice.ptr + AlignUp(Len(slice.bytes) + 1, 8), bytes |-> slice.bytes])
FromBytesOffset(slice, T, cfg_unaligned, checks) ==
  IF Len(slice.bytes) # size_of(T, cfg_unaligned)
  THEN SizeOfMismatch(Len(slice.bytes), size_of(T, cfg_unaligned))
  ELSE IF ~cfg_unaligned /\ slice.ptr % align_of(T, cfg_unaligned) # 0
  THEN AlignOfMismatch(slice.ptr % align_of(T, cfg_unaligned), align_of(T, cfg_unaligned))
  ELSE IF slice.ptr % align_of(T, cfg_unaligned) # 0 /\ checks
  THEN Panic
  ELSE Ok(T, slice)
FromBytesAlignFirst(slice, T, cfg_unaligned, checks) ==
  IF ~cfg_unaligned /\ slice.ptr % align_of(T, cfg_unaligned) # 0
  THEN AlignOfMismatch(slice.ptr, align_of(T, cfg_unaligned))
  ELSE IF Len(slice.bytes) # size_of(T, cfg_unaligned)
  THEN SizeOfMismatch(Len(slice.bytes), size_of(T, cfg_unaligned))
  ELSE IF slice.ptr % align_of(T, cfg_unaligned) # 0 /\ checks
  THEN Panic
  ELSE Ok(T, slice)
\* Pod::from_bytes.  Without the alignment check (feature "unaligned") the
\* final cast of a misaligned pointer to a type of alignment > 1 is undefined
\* behaviour: a build with debug assertions traps on it, another build hands
\* out the misaligned reference.
FromBytes(slice, T, cfg_unaligned, checks) ==
  IF Len(slice.bytes) # size_of(T, cfg_unaligned)
  THEN SizeOfMismatch(Len(slice.bytes), size_of(T, cfg_unaligned))
  ELSE IF ~cfg_unaligned /\ slice.ptr % align_of(T, cfg_unaligned) # 0
  THEN AlignOfMismatch(slice.ptr, align_of(T, cfg_unaligned))
  ELSE IF slice.ptr % align_of(T, cfg_unaligned) # 0 /\ checks
  THEN Panic
  ELSE Ok(T, slice)

ReadPodOfWhole(read, T, cfg_unaligned, checks) ==
  CASE read.kind = "Panic" -> Panic
    [] read.kind = "None" -> SizeOfMismatch(0, size_of(T, cfg_unaligned))
    [] read.kind = "Some" -> FromBytes(read, T, cfg_unaligned, checks)
\* Reader::read_pod, given the outcome of its read_bytes call
ReadPodOf(read, T, cfg_unaligned, checks) ==
  CASE read.kind = "Panic" -> Panic
    [] read.kind = "None" -> Empty
    [] read.kind = "Some" -> FromBytes(read, T, cfg_unaligned, checks)

\* ------------------------------------------------------------ ELF values
ELFMAG == << 127, 69, 76, 70 >>

Variants == {"Elf32Le", "Elf64Le", "Elf32Be", "Elf64Be"}
VariantFamily(v) == IF v \in {"Elf32Le", "Elf32Be"} THEN "ElfType32" ELSE "ElfType64"
VariantEndian(v) == IF v \in {"Elf32Le", "Elf64Le"} THEN "LE" ELSE "BE"

\* magic == Some(&[0x7f, b'E', b'L', b'F'])
MagicMatchesPrefix(m) ==
  m.kind = "Some" /\ SubSeq(m.bytes, 1, 3) = SubSeq(ELFMAG, 1, 3)
MagicMatches(m) == m.kind = "Some" /\ m.bytes = ELFMAG

\* the `?` operator on a Result<_, BytesError> inside a function returning
\* Result<_, BytesError>: the error is returned as it is
PropagateEmpty(r) == Empty
Propagate(r) == r

\* the match on the class/data bytes in parse_elf
DispatchFallthrough(fmt) ==
  CASE fmt = << 1, 1 >> -> "Elf32Le"
    [] fmt = << 2, 1 >> -> "Elf64Le"
    [] fmt = << 1, 2 >> -> "Elf32Be"
    [] fmt = << 2, 2 >> -> "Elf64Be"
    [] OTHER -> "Elf32Le"
DispatchSwapped(fmt) ==
  CASE fmt = << 1, 1 >> -> "Elf32Le"
    [] fmt = << 2, 1 >> -> "Elf32Be"
    [] fmt = << 1, 2 >> -> "Elf64Le"
    [] fmt = << 2, 2 >> -> "Elf64Be"
    [] OTHER -> "none"
Dispatch(fmt) ==
  CASE fmt = << 1, 1 >> -> "Elf32Le"
    [] fmt = << 2, 1 >> -> "Elf64Le"
    [] fmt = << 1, 2 >> -> "Elf32Be"
    [] fmt = << 2, 2 >> -> "Elf64Be"
    [] OTHER -> "none"

\* I16..U64::get on the stored representation
Get_(endian, stored, cfg_unaligned, target) ==
  IF cfg_unaligned THEN UnalignedRead(endian, stored)
  ELSE AlignedRead(endian, stored, target)
\* I16..U64::from(native).0
From_(endian, value, cfg_unaligned, target) ==
  IF cfg_unaligned THEN UnalignedWrite(endian, value)
  ELSE AlignedWrite(endian, value, target)
SetNative(endian, value, cfg_unaligned, target) == value
\* I16..U64::set(native): the new content of self.0
Set_(endian, value, cfg_unaligned, target) ==
  IF cfg_unaligned THEN UnalignedWrite(endian, value)
  ELSE AlignedWrite(endian, value, target)
\* what the cast reference sees at some bytes: a byte array, or the native
\* integer of the target
Stored(raw, cfg_unaligned, target) ==
  IF cfg_unaligned THEN raw ELSE NativeLoad(raw, target)

\* header.<field>.get() through the reference held by a parsed variant
HeaderField(v, h, i, cfg_unaligned, target) ==
  LET fam == VariantFamily(v)
      off == FieldOffset(fam, i, cfg_unaligned)
      raw == SubSeq(h.bytes, off + 1, off + ScalarSize(FieldType(fam, i)))
  IN Get_(VariantEndian(v), Stored(raw, cfg_unaligned, target), cfg_unaligned, target)

\* dada.<field i> through the reference returned by Dada::from_bytes
DadaField(ref, i, native) ==
  NativeLoad(SubSeq(ref.bytes, DadaOffset(i) + 1, DadaOffset(i) + PrimSize(DadaFields[i])),
             native)

\* ----------------------------------------------------- codec and wrappers
\* native values of a primitive type, as digits: 0, MIN, MAX, 1, the value
\* with only its most significant digit set to 1, and the values 0x1122..
\* used by the tests (digit i is 0x11 * i), shifted by k
IsSigned(p) == p \in {"i8", "i16", "i32", "i64"}
Zero(p) == [i \in 1..PrimSize(p) |-> 0]
MIN(p) == [i \in 1..PrimSize(p) |-> IF IsSigned(p) /\ i = 1 THEN 128 ELSE 0]
MAX(p) == [i \in 1..PrimSize(p) |-> IF IsSigned(p) /\ i = 1 THEN 127 ELSE 255]
One(p) == [i \in 1..PrimSize(p) |-> IF i = PrimSize(p) THEN 1 ELSE 0]
High(p) == [i \in 1..PrimSize(p) |-> IF i = 1 THEN 1 ELSE 0]
Initial(p, k) == [i \in 1..PrimSize(p) |-> (17 * i + k) % 256]
NativeValues(p) ==
  {Zero(p), MIN(p), MAX(p), One(p), High(p)} \cup {Initial(p, k) : k \in 0..MaxDigit}

Conventions == {"aligned", "unaligned"}
CodecPrimitives == {"i16", "u16", "i32", "u32", "i64", "u64"}

\* <Endian as {Aligned,Unaligned}EndianOperation<type>>::write(value)
Write(convention, endian, value, native) ==
  IF convention = "aligned" THEN AlignedWrite(endian, value, native)
  ELSE UnalignedWrite(endian, value)
\* <Endian as {Aligned,Unaligned}EndianOperation<type>>::read(value)
Read(convention, endian, value, native) ==
  IF convention = "aligned" THEN AlignedRead(endian, value, native)
  ELSE UnalignedRead(endian, value)

\* Ord of [u8; N] and of the unsigned integers, on digits: lexicographic
RECURSIVE LexCmp(_, _)
LexCmp(a, b) ==
  IF a = <<>> THEN (IF b = <<>> THEN "Equal" ELSE "Less")
  ELSE IF b = <<>> THEN "Greater"
  ELSE IF Head(a) < Head(b) THEN "Less"
  ELSE IF Head(a) > Head(b) THEN "Greater"
  ELSE LexCmp(Tail(a), Tail(b))
\* Ord of the signed integers: two's complement, the top bit is the sign
SignedKey(value) == [value EXCEPT ![1] = (value[1] + 128) % 256]
IntCmp(p, a, b) ==
  IF IsSigned(p) THEN LexCmp(SignedKey(a), SignedKey(b)) ELSE LexCmp(a, b)

\* derived PartialEq: self.0 == other.0 (PhantomData compares equal)
PartialEq(a, b) == a = b
CmpDecoded(W, endian, a, b, cfg_unaligned, target) ==
  IntCmp(WrapperPrim(W), Get_(endian, a, cfg_unaligned, target),
         Get_(endian, b, cfg_unaligned, target))
\* derived Ord: self.0.cmp(&other.0), a byte array in the unaligned flavour
\* and the native integer in the aligned one
Cmp(W, endian, a, b, cfg_unaligned, target) ==
  IF cfg_unaligned THEN LexCmp(a, b) ELSE IntCmp(WrapperPrim(W), a, b)
\* derived Hash: what self.0.hash feeds to the hasher: a length prefix and
\* the bytes for an array, the native-order bytes for an integer
Hash_(stored, cfg_unaligned, target) ==
  IF cfg_unaligned THEN << Len(stored) >> \o stored
  ELSE NativeStore(stored, target)

\* ------------------------------------------------------------------ Magic
\* Text is a sequence of character codes: "\x7f ELF" is
\* << 92, 120, 55, 102, 32, 69, 76, 70 >>.
\* u8::is_ascii_graphic: b'!'..=b'~'
is_ascii_graphic(byte) == 33 <= byte /\ byte <= 126
\* u8::is_ascii_whitespace: space, \t, \n, form feed, \r
is_ascii_whitespace(byte) == byte \in {32, 9, 10, 12, 13}
\* the lower-case hexadecimal digit of 0..15
HexDigit(d) == IF d < 10 THEN 48 + d ELSE 87 + d
\* std::ascii::escape_default(byte): \t, \r, \n, \', \", \\ for those bytes,
\* the byte itself from 0x20 to 0x7e, and \xHH for every other byte
escape_default(byte) ==
  IF byte = 9 THEN << 92, 116 >>
  ELSE IF byte = 13 THEN << 92, 114 >>
  ELSE IF byte = 10 THEN << 92, 110 >>
  ELSE IF byte = 39 THEN << 92, 39 >>
  ELSE IF byte = 34 THEN << 92, 34 >>
  ELSE IF byte = 92 THEN << 92, 92 >>
  ELSE IF 32 <= byte /\ byte <= 126 THEN << byte >>
  ELSE << 92, 120, HexDigit(byte \div 16), HexDigit(byte % 16) >>
\* <[u8]>::trim_ascii_start
RECURSIVE trim_ascii_start(_)
trim_ascii_start(string) ==
  IF string # <<>> /\ is_ascii_whitespace(Head(string))
  THEN trim_ascii_start(Tail(string)) ELSE string

\* elf::magic::Magic, Display: the loop over the first n bytes
RECURSIVE ElfMagicLoop(_, _)
ElfMagicLoop(magic_bytes, n) ==
  IF n = 0 THEN [string |-> <<>>, last_is_printable |-> TRUE]
  ELSE LET prev == ElfMagicLoop(magic_bytes, n - 1)
           byte == magic_bytes[n]
       IN [string |->
             prev.string
               \o (IF ~prev.last_is_printable \/ ~is_ascii_graphic(byte)
                   THEN << 32 >> ELSE <<>>)
               \o escape_default(byte),
           last_is_printable |-> is_ascii_graphic(byte)]
ElfMagicDisplay(magic_bytes) ==
  trim_ascii_start(ElfMagicLoop(magic_bytes, Len(magic_bytes)).string)

\* utils::adapter::Magic, Display: no separator before the first byte
RECURSIVE AdapterMagicLoop(_, _)
AdapterMagicLoop(magic_bytes, n) ==
  IF n = 0 THEN [string |-> <<>>, last_is_printable |-> TRUE]
  ELSE LET prev == AdapterMagicLoop(magic_bytes, n - 1)
           byte == magic_bytes[n]
       IN [string |->
             prev.string
               \o (IF n # 1 /\ (~prev.last_is_printable \/ ~is_ascii_graphic(byte))
                   THEN << 32 >> ELSE <<>>)
               \o escape_default(byte),
           last_is_printable |-> is_ascii_graphic(byte)]
AdapterMagicDisplay(magic_bytes) ==
  AdapterMagicLoop(magic_bytes, Len(magic_bytes)).string

Renderers == {"elf::magic::Magic", "utils::adapter::Magic"}
Display(renderer, magic_bytes) ==
  IF renderer = "elf::magic::Magic" THEN ElfMagicDisplay(magic_bytes)
  ELSE AdapterMagicDisplay(magic_bytes)

\* the bytes magic numbers are made of: those of the tests, a tab and a space
MagicSample == {1, 2, 3, 9, 32, 65, 69, 70, 76, 98, 127}

\* ------------------------------------------------------- define_constants
SomeOf(x) == [kind |-> "Some", value |-> x]
\* Constant::new(name, value, meaning)
Constant(name, value, meaning) == [name |-> name, value |-> value, meaning |-> meaning]
\* Constant::named(name, value, meaning)
Named(name, value, meaning) == Constant(SomeOf(name), value, meaning)
\* Constant::unknown(value, meaning)
Unknown(value, meaning) == Constant(None, value, meaning)

Single(name, value, meaning) == [name |-> name, value |-> value, meaning |-> meaning]
Range(lo_name, hi_name, lo, hi, meaning) ==
  [lo_name |-> lo_name, hi_name |-> hi_name, lo |-> lo, hi |-> hi, meaning |-> meaning]

\* the modules declared with define_constants!
Modules == {"dada", "ei_class", "ei_data", "ei_version", "e_version", "e_type"}
ModuleType(module) ==
  CASE module \in {"dada", "e_version"} -> "usize"
    [] module \in {"ei_class", "ei_data", "ei_version"} -> "u8"
    [] module = "e_type" -> "u16"
Singles(module) ==
  CASE module = "dada" ->
         << Single("TR_DADA", 0, "Dada fafa"), Single("TR_FAFA", 1, "Fafa gaga"),
            Single("TR_GAGA", 101, "Gaga haha") >>
    [] module = "ei_class" ->
         << Single("ELFCLASS32", 1, "32-bit objects"),
            Single("ELFCLASS64", 2, "64-bit objects") >>
    [] module = "ei_data" ->
         << Single("ELFDATA2LSB", 1, "2's complement, little-endian"),
            Single("ELFDATA2MSB", 2, "2's complement, big-endian") >>
    [] module \in {"ei_version", "e_version"} ->
         << Single("EV_NONE", 0, "Invalid version"),
            Single("EV_CURRENT", 1, "Current version") >>
    [] module = "e_type" ->
         << Single("ET_NONE", 0, "No file type"),
            Single("ET_REL", 1, "Relocatable object file"),
            Single("ET_EXEC", 2, "Executable file"),
            Single("ET_DYN", 3, "Shared object file"),
            Single("ET_CORE", 4, "Core file") >>
Ranges(module) ==
  CASE module = "dada" ->
         << Range("TR_LOHAHA", "TR_HIHAHA", 160, 168, "Haha jaja"),
            Range("TR_LOJAJA", "TR_HIJAJA", 176, 188, "Jaja kaka") >>
    [] module = "e_type" ->
         << Range("ET_LOOS", "ET_HIOS", 65024, 65279, "Environment-specific use"),
            Range("ET_LOPROC", "ET_HIPROC", 65280, 65535, "Processor-specific use") >>
    [] OTHER -> <<>>

\* the arms of the generated match, in order: one per single value, then for
\* each range its low end, its high end and the exclusive range low..high
SingleArm(c) ==
  [from |-> c.value, to |-> c.value, name |-> SomeOf(c.name),
   meaning |-> SomeOf(c.meaning)]
RangeArmsInclusive(r) ==
  << [from |-> r.lo, to |-> r.hi, name |-> None, meaning |-> SomeOf(r.meaning)],
     [from |-> r.lo, to |-> r.lo, name |-> SomeOf(r.lo_name),
      meaning |-> SomeOf(r.meaning)],
     [from |-> r.hi, to |-> r.hi, name |-> SomeOf(r.hi_name),
      meaning |-> SomeOf(r.meaning)] >>
RangeArms(r) ==
  << [from |-> r.lo, to |-> r.lo, name |-> SomeOf(r.lo_name),
      meaning |-> SomeOf(r.meaning)],
     [from |-> r.hi, to |-> r.hi, name |-> SomeOf(r.hi_name),
      meaning |-> SomeOf(r.meaning)],
     [from |-> r.lo, to |-> r.hi - 1, name |-> None, meaning |-> SomeOf(r.meaning)] >>
RECURSIVE AllRangeArms(_, _)
AllRangeArms(ranges, n) ==
  IF n = 0 THEN <<>> ELSE AllRangeArms(ranges, n - 1) \o RangeArms(ranges[n])
Arms(module) ==
  [i \in 1..Len(Singles(module)) |-> SingleArm(Singles(module)[i])]
    \o AllRangeArms(Ranges(module), Len(Ranges(module)))
\* <module>::into_constant(value): the first arm that matches, or `_`
IntoConstant(module, value) ==
  LET arms == Arms(module)
      hits == {i \in 1..Len(arms) : arms[i].from <= value /\ value <= arms[i].to}
  IN IF hits = {} THEN Unknown(value, None)
     ELSE LET arm == arms[CHOOSE i \in hits : \A j \in hits : i <= j]
          IN Constant(arm.name, value, arm.meaning)
\* the values of the module's integer type that are looked up
ValuesOf(module) ==
  CASE ModuleType(module) = "u8" -> 0..255
    [] ModuleType(module) = "usize" -> 0..UsizeMax
    [] ModuleType(module) = "u16" -> (0..MaxSmall) \cup (65022..65535)

\* ------------------------------------------------------------- MappedFile
\* io::Error of some kind
IoError(kind) == [kind |-> "Err", error |-> kind]
\* the value libc::mmap returns on failure: the address !0
MAP_FAILED == UsizeMax
\* MappedFile { data, length }
MappedFile(address, length) == [kind |-> "MappedFile", data |-> address, length |-> length]
\* u64 -> libc::size_t, try_into
FitsUsize(length) == length <= UsizeMax
LengthNegative(length) == length < 0
\* MappedFile::new: `if length == 0`
LengthRejected(length) == length = 0
\* Drop: `if !self.data.is_null() && self.length != 0`
Unmaps(file) == file.data # 0 /\ file.length # 0

\* -------------------------------------------------------- ElfSectionTable
\* Err(()) of Result<Self, ()>
ErrUnit == [kind |-> "Err", error |-> "()"]
\* a u16 as its two digits, and the number a sequence of digits stands for
Half(n) == << n \div 256, n % 256 >>
RECURSIVE Number(_)
Number(value) ==
  IF value = <<>> THEN 0
  ELSE Number(SubSeq(value, 1, Len(value) - 1)) * 256 + value[Len(value)]
\* usize::from(header.e_shentsize): read(value.0) widened to usize
IntoUsize(endian, stored, cfg_unaligned, native) ==
  Number(Get_(endian, stored, cfg_unaligned, native))
\* section_size != size_of::<ElfSection<ElfType>>()
EntsizeMismatch(section_size, family, endian, cfg_unaligned) ==
  section_size # SizeOfStruct("ElfSection", family, endian, cfg_unaligned)
SectionTableEmpty == [kind |-> "Ok", sections |-> <<>>]
\* what follows the size test in ElfSectionTable::parse: `// TODO Err(())`
SectionTableStub == ErrUnit

\* --------------------------------------------------- Cursor, SharedCursor
\* The wrapped iterator: it yields its items in order and then None.  What
\* it does when asked again after None is left to the implementation: a
\* "fused" iterator keeps returning None, a "resuming" one starts over.
IteratorKinds == {"fused", "resuming"}
Iterator(kind, items) ==
  [kind |-> kind, items |-> items, position |-> 0, yielded |-> <<>>,
   returned_none |-> FALSE, called_after_none |-> FALSE]
\* Iterator::next(): the item and the iterator afterwards
IteratorNext(it) ==
  IF it.position < Len(it.items)
  THEN [item |-> SomeOf(it.items[it.position + 1]),
        iterator |-> [it EXCEPT !.position = @ + 1,
                                !.yielded = Append(@, it.items[it.position + 1]),
                                !.called_after_none = @ \/ it.returned_none]]
  ELSE [item |-> None,
        iterator |-> [it EXCEPT !.position = IF it.kind = "resuming" THEN 0 ELSE @,
                                !.returned_none = TRUE,
                                !.called_after_none = @ \/ it.returned_none]]

\* PeekResult::Item, PeekResult::EndReached
Item(item) == [kind |-> "Item", item |-> item]
EndReached(index) == [kind |-> "EndReached", index |-> index]
\* PeekResult::unwrap_item, as the Option handed back to the caller
unwrap_item(peek) == IF peek.kind = "Item" THEN SomeOf(peek.item) ELSE Panic
\* Vec::get_mut(index).unwrap()
get_mut_unwrap(vector, index) ==
  IF index < Len(vector) THEN SomeOf(vector[index + 1]) ELSE Panic

\* Cursor::new
CursorNew(iterator) ==
  [iterator |-> iterator, iterator_done |-> FALSE, vector |-> <<>>, index |-> None]

CursorPrevSticky(cursor) ==
  IF cursor.index = None \/ cursor.index.value = 0
  THEN [cursor |-> cursor, result |-> None]
  ELSE [cursor |-> [cursor EXCEPT !.index = SomeOf(cursor.index.value - 1)],
        result |-> get_mut_unwrap(cursor.vector, cursor.index.value - 1)]
\* Cursor::prev: the cursor afterwards and the value returned
CursorPrev(cursor) ==
  IF cursor.index = None THEN [cursor |-> cursor, result |-> None]
  ELSE IF cursor.index.value = 0
  THEN [cursor |-> [cursor EXCEPT !.index = None], result |-> None]
  ELSE [cursor |-> [cursor EXCEPT !.index = SomeOf(cursor.index.value - 1)],
        result |-> get_mut_unwrap(cursor.vector, cursor.index.value - 1)]

CursorNextUnfused(cursor) ==
  LET index == IF cursor.index = None THEN 0 ELSE cursor.index.value + 1
      polled == IteratorNext(cursor.iterator)
  IN IF index < Len(cursor.vector)
     THEN [cursor |-> [cursor EXCEPT !.index = SomeOf(index)],
           result |-> get_mut_unwrap(cursor.vector, index)]
     ELSE IF polled.item # None
     THEN [cursor |-> [cursor EXCEPT !.iterator = polled.iterator,
                                     !.vector = Append(@, polled.item.value),
                                     !.index = SomeOf(Len(cursor.vector))],
           result |-> polled.item]
     ELSE [cursor |-> [cursor EXCEPT !.iterator = polled.iterator,
                                     !.iterator_done = TRUE,
                                     !.index = SomeOf(Len(cursor.vector))],
           result |-> None]
\* Cursor::next: the iterator is asked only while iterator_done is false
CursorNext(cursor) ==
  LET index == IF cursor.index = None THEN 0 ELSE cursor.index.value + 1
      polled == IteratorNext(cursor.iterator)
  IN IF index < Len(cursor.vector)
     THEN [cursor |-> [cursor EXCEPT !.index = SomeOf(index)],
           result |-> get_mut_unwrap(cursor.vector, index)]
     ELSE IF ~cursor.iterator_done /\ polled.item # None
     THEN [cursor |-> [cursor EXCEPT !.iterator = polled.iterator,
                                     !.vector = Append(@, polled.item.value),
                                     !.index = SomeOf((Len(cursor.vector) + 1) - 1)],
           result |-> polled.item]
     ELSE [cursor |-> [cursor EXCEPT
                         !.iterator = IF cursor.iterator_done THEN @ ELSE polled.iterator,
                         !.iterator_done = TRUE,
                         !.index = SomeOf(Len(cursor.vector))],
           result |-> None]

\* Cursor::nth, the loop `while vector.len() <= index && !iterator_done`
RECURSIVE NthWhile(_, _)
NthWhile(cursor, index) ==
  IF Len(cursor.vector) <= index /\ ~cursor.iterator_done
  THEN LET polled == IteratorNext(cursor.iterator)
       IN NthWhile(IF polled.item = None
                   THEN [cursor EXCEPT !.iterator = polled.iterator,
                                       !.iterator_done = TRUE]
                   ELSE [cursor EXCEPT !.iterator = polled.iterator,
                                       !.vector = Append(@, polled.item.value)],
                   index)
  ELSE cursor
\* Cursor::nth: the cursor afterwards, the PeekResult (or a panic), and
\* whether the usize subtraction `vector.len() - 1` went below zero: it
\* panics when overflow checks are compiled in and wraps to the largest usize
\* otherwise.
CursorNth(cursor, index, checks) ==
  IF index < Len(cursor.vector)
  THEN [cursor |-> cursor, peek |-> Item(cursor.vector[index + 1]), underflow |-> FALSE]
  ELSE IF ~cursor.iterator_done
  THEN LET after == NthWhile(cursor, index)
           length == Len(after.vector)
       IN IF length = 0
          THEN [cursor |-> after,
                peek |-> IF checks \/ index = UsizeMax THEN Panic ELSE EndReached(length),
                underflow |-> TRUE]
          ELSE [cursor |-> after,
                peek |-> IF index = length - 1 THEN Item(after.vector[length])
                         ELSE EndReached(length),
                underflow |-> FALSE]
  ELSE [cursor |-> cursor, peek |-> EndReached(Len(cursor.vector)), underflow |-> FALSE]

\* SharedCursor: `inner` is the Cursor all forks share, `index` the position
\* of one of them.
\* SharedCursor::fork: the index of the new cursor (inner is the same Rc)
SharedFork(index) == index
SharedMergeKeep(index, other) == index
\* SharedCursor::merge: the index of the receiver afterwards
SharedMerge(index, other) == other
\* SharedCursor::prev
SharedPrev(inner, index, checks) ==
  IF index = None
  THEN [inner |-> inner, index |-> index, result |-> None, underflow |-> FALSE]
  ELSE IF index.value = 0
  THEN [inner |-> inner, index |-> None, result |-> None, underflow |-> FALSE]
  ELSE LET nth == CursorNth(inner, index.value - 1, checks)
       IN [inner |-> nth.cursor, index |-> SomeOf(index.value - 1),
           result |-> IF nth.peek = Panic THEN Panic ELSE unwrap_item(nth.peek),
           underflow |-> nth.underflow]
\* SharedCursor::next
SharedNext(inner, index, checks) ==
  LET at == IF index = None THEN 0 ELSE index.value + 1
      nth == CursorNth(inner, at, checks)
  IN CASE nth.peek.kind = "Panic" ->
            [inner |-> nth.cursor, index |-> index, result |-> Panic,
             underflow |-> nth.underflow]
       [] nth.peek.kind = "Item" ->
            [inner |-> nth.cursor, index |-> SomeOf(at),
             result |-> unwrap_item(CursorNth(nth.cursor, at, checks).peek),
             underflow |-> nth.underflow]
       [] nth.peek.kind = "EndReached" ->
            [inner |-> nth.cursor, index |-> SomeOf(nth.peek.index), result |-> None,
             underflow |-> nth.underflow]

\* ----------------------------------------------------------- TableBuilder
\* A String is its sequence of characters (Unicode scalar values).
\* the number of bytes of a character in UTF-8
len_utf8(ch) == IF ch < 128 THEN 1 ELSE IF ch < 2048 THEN 2 ELSE 3
\* String::len: the length in bytes
RECURSIVE string_len(_)
string_len(string) ==
  IF string = <<>> THEN 0 ELSE len_utf8(Head(string)) + string_len(Tail(string))
Spaces(n) == [i \in 1..n |-> 32]
\* format_args!("{value:<width$} "): Formatter::pad counts characters and
\* fills to the right, then the space of the format string
PadLeftAligned(value, width) ==
  value \o (IF Len(value) < width THEN Spaces(width - Len(value)) ELSE <<>>) \o << 32 >>
max(a, b) == IF a >= b THEN a ELSE b
\* TableItem::Value, TableItem::NewLine
Value(string) == [kind |-> "Value", string |-> string]
NewLine == [kind |-> "NewLine"]
OkUnit == [kind |-> "Ok"]
FmtError == [kind |-> "Err", error |-> "fmt::Error"]
\* what a value's Display writes, or its failure
Written(string) == [kind |-> "Ok", string |-> string]

\* Formatter::display_table(title)
display_table(title) ==
  [formatter |-> title, result |-> OkUnit, items |-> <<>>, widths |-> <<>>]
\* TableBuilder::set_width: the widths afterwards
set_width(widths, index, width) ==
  IF index < Len(widths) THEN [widths EXCEPT ![index + 1] = max(@, width)]
  ELSE Append(widths, width)
\* TableBuilder::get_width
get_width(widths, index) == IF index < Len(widths) THEN widths[index + 1] ELSE 0
\* TableBuilder::row, the loop over the first n values: once a value has
\* failed to format, result stays Err and the closure is not run again
RECURSIVE RowLoop(_, _, _)
RowLoop(table, values, n) ==
  IF n = 0 THEN [table EXCEPT !.items = Append(@, NewLine)]
  ELSE LET before == RowLoop(table, values, n - 1)
           value == values[n]
       IN IF before.result # OkUnit THEN before
          ELSE IF value.kind # "Ok" THEN [before EXCEPT !.result = FmtError]
          ELSE [before EXCEPT
                  !.widths = set_width(@, n - 1, string_len(value.string)),
                  !.items = Append(@, Value(value.string))]
row(table, values) == RowLoop(table, values, Len(values))
\* TableBuilder::finish, the loop over the first n items: the text written
\* and the local `index`
RECURSIVE FinishLoop(_, _)
FinishLoop(table, n) ==
  IF n = 0 THEN [out |-> <<>>, index |-> 0]
  ELSE LET before == FinishLoop(table, n - 1)
           item == table.items[n]
       IN IF item = NewLine THEN [before EXCEPT !.index = 0]
          ELSE [out |-> before.out
                          \o (IF before.index = 0 THEN << 10, 32, 32 >> ELSE <<>>)
                          \o PadLeftAligned(item.string, get_width(table.widths, before.index)),
                index |-> before.index + 1]
\* TableBuilder::finish: the table afterwards (the formatter has the output)
\* and the fmt::Result
finish(table) ==
  IF table.result # OkUnit THEN [table |-> table, result |-> table.result]
  ELSE [table |-> [table EXCEPT
                     !.formatter = @ \o FinishLoop(table, Len(table.items)).out \o << 10 >>],
        result |-> OkUnit]

\* ------------------------------------------------- derive: Buffer, Cursor
\* A TokenTree is an identifier, a punctuation character, a literal, or a
\* group made of a delimiter and a stream; an Entry is one of the first
\* three, a Group with the distance to the entry after its content, or End.
Identifier(text) == [kind |-> "Identifier", text |-> text]
Punctuation(char) == [kind |-> "Punctuation", char |-> char]
Literal == [kind |-> "Literal"]
GroupTree(delimiter, stream) == [kind |-> "Group", delimiter |-> delimiter, stream |-> stream]
Group(delimiter, offset) == [kind |-> "Group", delimiter |-> delimiter, offset |-> offset]
End == [kind |-> "End"]

\* Buffer::flatten: the entries after the first n trees of the stream have
\* been appended; a group is its entry followed by its flattened content
RECURSIVE flatten(_, _, _)
flatten(entries, stream, n) ==
  IF n = 0 THEN entries
  ELSE LET before == flatten(entries, stream, n - 1)
           token == stream[n]
       IN IF token.kind # "Group" THEN Append(before, token)
          ELSE LET begin == Len(before)
                   inner == flatten(Append(before, End), token.stream, Len(token.stream))
               IN [inner EXCEPT ![begin + 1] = Group(token.delimiter, Len(inner) - begin)]
\* Buffer::from(stream).entries
BufferFrom(stream) == Append(flatten(<<>>, stream, Len(stream)), End)

\* Pointers into the entries are indices: as_ptr_range() is 0 .. len.
\* Head::new(buffer.as_ptr_range())
HeadNew(entries) == [current |-> 0, stop |-> Len(entries)]
\* Cursor::entry: the entry under the cursor.  Reading at or beyond the end
\* of the boxed slice is undefined behaviour; the value "Dangling" stands for
\* whatever is read there, and is no entry kind.
entry(entries, head) ==
  IF head.current < Len(entries) THEN entries[head.current + 1]
  ELSE [kind |-> "Dangling"]
\* Head::step: the head afterwards, or the panic
step(entries, head) ==
  IF entry(entries, head) = End THEN Panic
  ELSE IF head.current >= head.stop THEN Panic
  ELSE [current |-> head.current + 1, stop |-> head.stop]
\* Cursor::fork, Cursor::merge: the head of the new cursor, of the receiver
fork(head) == head
merge(head, other) == other

takeUnmatched(kind, entries, head) ==
  IF entry(entries, head).kind \in {kind, "End"}
  THEN [kind |-> "Some", token |-> entry(entries, head), next |-> step(entries, head)]
  ELSE None
\* <Cursor as Take<kind>>::take: Some((token, next)) or None
take(kind, entries, head) ==
  IF entry(entries, head).kind = kind
  THEN [kind |-> "Some", token |-> entry(entries, head), next |-> step(entries, head)]
  ELSE None
\* Cursor::is_end
is_end(entries, head) == entry(entries, head) = End

\* --------------------------------------------------------- derive: tokens
\* define_keywords!, define_groups!, define_punctuation!
Keywords ==
  [Const |-> "const", Crate |-> "crate", For |-> "for", Pub |-> "pub",
   Struct |-> "struct", Where |-> "where"]
Groups == {"Parenthesis", "Brace", "Bracket"}
Punctuations ==
  [Colon |-> ":", Comma |-> ",", Dollar |-> "$", Equals |-> "=", Gt |-> ">",
   Hash |-> "#", Lt |-> "<", Plus |-> "+", Question |-> "?", Quote |-> "'",
   SemiColon |-> ";", Underscore |-> "_"]
TokenNames == DOMAIN Keywords \cup Groups \cup DOMAIN Punctuations
EntryKinds == {"Identifier", "Group", "Literal", "Punctuation"}
\* create_token!: the entry kind a token is taken as, and its test
\* `value == $expr1`
TokenKind(name) ==
  IF name \in DOMAIN Keywords THEN "Identifier"
  ELSE IF name \in Groups THEN "Group" ELSE "Punctuation"
TokenMatches(name, token) ==
  IF name \in DOMAIN Keywords THEN token.text = Keywords[name]
  ELSE IF name \in Groups THEN token.delimiter = name
  ELSE token.char = Punctuations[name]

\* The outcome of a parser: Some, None, or a panic with its cause (a step
\* of the cursor, or syntax the parser does not support), and the head of
\* the cursor it was given as it is when the parser returns or unwinds.
Parsed(head) == [kind |-> "Some", head |-> head]
NotParsed(head) == [kind |-> "None", head |-> head]
Panicked(head, cause) == [kind |-> "Panic", head |-> head, cause |-> cause]
\* the first panic among the outcomes of the calls made, in call order,
\* unwinding through a caller whose cursor has the given head
Raised(outcomes) == \E i \in 1..Len(outcomes) : outcomes[i].kind = "Panic"
Unwind(outcomes, head) ==
  LET first == CHOOSE i \in 1..Len(outcomes) :
                 /\ outcomes[i].kind = "Panic"
                 /\ \A j \in 1..(i - 1) : outcomes[j].kind # "Panic"
  IN Panicked(head, outcomes[first].cause)

\* implement_parser!: <Identifier | Group | Literal | Punctuation>::parse
ParseEntry(kind, entries, input) ==
  LET taken == take(kind, entries, input)
  IN IF taken = None THEN NotParsed(input)
     ELSE IF taken.next = Panic THEN Panicked(input, "step")
     ELSE Parsed(merge(input, taken.next))
\* implement_parser!: peek
PeekEntry(kind, entries, input) == take(kind, entries, input) # None
\* create_token!: <Token![name]>::parse
ParseToken(name, entries, input) ==
  LET taken == take(TokenKind(name), entries, input)
  IN IF taken = None THEN NotParsed(input)
     ELSE IF taken.next = Panic THEN Panicked(input, "step")
     ELSE IF TokenMatches(name, taken.token) THEN Parsed(merge(input, taken.next))
     ELSE NotParsed(input)
\* create_token!: <Token![name]>::peek
PeekToken(name, entries, input) ==
  LET taken == take(TokenKind(name), entries, input)
  IN IF taken = None THEN FALSE ELSE TokenMatches(name, taken.token)

\* -------------------------------------------------------- derive: parsers
\* Each parser is given the entries and the head of `input`; `ahead` and
\* `far_ahead` are the heads of the forks it makes.  A parser calls another
\* one through Cursor::parse.
RECURSIVE Parse(_, _, _)
\* OuterAttribute::parse
ParseOuterAttribute(entries, input) ==
  LET hash_token == Parse("Hash", entries, fork(input))
      attr_group == Parse("Bracket", entries, hash_token.head)
  IN IF hash_token.kind # "Some" THEN [hash_token EXCEPT !.head = input]
     ELSE IF attr_group.kind # "Some" THEN [attr_group EXCEPT !.head = input]
     ELSE Parsed(merge(input, attr_group.head))

\* Visibility::parse
ParseVisibility(entries, input) ==
  LET pub_token == Parse("Pub", entries, input)
      path_group == Parse("Parenthesis", entries, pub_token.head)
  IN IF pub_token.kind # "Some" THEN pub_token
     ELSE IF path_group.kind = "Panic" THEN path_group
     ELSE Parsed(path_group.head)

\* ConstParam::parse
ParseConstParam(entries, input) ==
  LET const == Parse("Const", entries, input)
  IN IF const.kind = "Some" THEN Panicked(const.head, "unsupported") ELSE const

\* ForLifetimes::parse
ParseForLifetimes(entries, input) ==
  LET for == Parse("For", entries, input)
  IN IF for.kind = "Some" THEN Panicked(for.head, "unsupported") ELSE for

\* LifetimeOrLabel::parse: both elements of the tuple are parsed on `ahead`
\* before the match
ParseLifetimeOrLabel(entries, input) ==
  LET quote == Parse("Quote", entries, fork(input))
      lifetime == Parse("Identifier", entries, quote.head)
  IN IF Raised(<< quote, lifetime >>) THEN Unwind(<< quote, lifetime >>, input)
     ELSE IF quote.kind = "Some" /\ lifetime.kind = "Some"
     THEN Parsed(merge(input, lifetime.head))
     ELSE NotParsed(input)

ParseLifetimeGreedy(entries, input) ==
  LET lifetime == Parse("LifetimeOrLabel", entries, input)
      quote == Parse("Quote", entries, lifetime.head)
      underscore == Parse("Underscore", entries, quote.head)
  IN IF lifetime.kind # "None" THEN lifetime
     ELSE IF Raised(<< quote, underscore >>)
     THEN Unwind(<< quote, underscore >>, underscore.head)
     ELSE IF quote.kind = "Some" /\ underscore.kind = "Some"
     THEN Parsed(underscore.head)
     ELSE NotParsed(underscore.head)
\* Lifetime::parse
ParseLifetime(entries, input) ==
  LET lifetime == Parse("LifetimeOrLabel", entries, input)
      quote == Parse("Quote", entries, fork(lifetime.head))
      underscore == Parse("Underscore", entries, quote.head)
  IN IF lifetime.kind # "None" THEN lifetime
     ELSE IF Raised(<< quote, underscore >>)
     THEN Unwind(<< quote, underscore >>, lifetime.head)
     ELSE IF quote.kind = "Some" /\ underscore.kind = "Some"
     THEN Parsed(merge(lifetime.head, underscore.head))
     ELSE NotParsed(lifetime.head)

\* LifetimeBounds::parse, `while let Some(lifetime) = ahead.parse()`: how
\* the loop ends, the head of `ahead` then, the number of lifetimes pushed
RECURSIVE LifetimeBoundsLoop(_, _, _)
LifetimeBoundsLoop(entries, ahead, pushed) ==
  LET lifetime == Parse("Lifetime", entries, ahead)
      plus == Parse("Plus", entries, lifetime.head)
  IN IF lifetime.kind = "Panic" THEN lifetime
     ELSE IF lifetime.kind = "None"
     THEN [kind |-> "None", head |-> lifetime.head, pushed |-> pushed]
     ELSE IF plus.kind = "Panic" THEN plus
     ELSE LifetimeBoundsLoop(entries, plus.head, pushed + 1)
\* LifetimeBounds::parse
ParseLifetimeBounds(entries, input) ==
  LET loop == LifetimeBoundsLoop(entries, fork(input), 0)
  IN IF loop.kind = "Panic" THEN [loop EXCEPT !.head = input]
     ELSE IF loop.pushed = 0 THEN NotParsed(input)
     ELSE Parsed(merge(input, loop.head))

\* LifetimeParam::parse
ParseLifetimeParam(entries, input) ==
  LET lifetime == Parse("LifetimeOrLabel", entries, input)
      colon == Parse("Colon", entries, fork(lifetime.head))
      bounds == Parse("LifetimeBounds", entries, colon.head)
  IN IF lifetime.kind # "Some" THEN lifetime
     ELSE IF Raised(<< colon, bounds >>) THEN Unwind(<< colon, bounds >>, lifetime.head)
     ELSE IF colon.kind = "Some" THEN Parsed(merge(lifetime.head, bounds.head))
     ELSE Parsed(lifetime.head)

\* PathIdentSegment::parse
ParsePathIdentSegment(entries, input) ==
  LET identifier == Parse("Identifier", entries, input)
      dollar == Parse("Dollar", entries, fork(identifier.head))
      keyword == Parse("Crate", entries, dollar.head)
  IN IF identifier.kind # "None" THEN identifier
     ELSE IF Raised(<< dollar, keyword >>)
     THEN Unwind(<< dollar, keyword >>, identifier.head)
     ELSE IF dollar.kind = "Some" /\ keyword.kind = "Some"
     THEN Parsed(merge(identifier.head, keyword.head))
     ELSE NotParsed(identifier.head)

\* TypePath::parse, the loop: how it ends, the head of `ahead` then, the
\* number of segments pushed
RECURSIVE TypePathLoop(_, _, _)
TypePathLoop(entries, ahead, pushed) ==
  LET colon1 == Parse("Colon", entries, fork(ahead))
      colon2 == Parse("Colon", entries, colon1.head)
      segment == Parse("PathIdentSegment", entries, colon2.head)
      break == [kind |-> "None", head |-> ahead, pushed |-> pushed]
  IN IF Raised(<< colon1, colon2 >>) THEN Unwind(<< colon1, colon2 >>, ahead)
     ELSE IF colon1.kind = "Some" /\ colon2.kind = "None" THEN break
     ELSE IF segment.kind = "Panic" THEN [segment EXCEPT !.head = ahead]
     ELSE IF segment.kind = "Some"
     THEN TypePathLoop(entries, merge(ahead, segment.head), pushed + 1)
     ELSE break
\* TypePath::parse
ParseTypePath(entries, input) ==
  LET loop == TypePathLoop(entries, fork(input), 0)
  IN IF loop.kind = "Panic" THEN [loop EXCEPT !.head = input]
     ELSE IF loop.pushed = 0 THEN NotParsed(input)
     ELSE Parsed(merge(input, loop.head))

\* TraitBound::parse
ParseTraitBound(entries, input) ==
  LET group == Parse("Parenthesis", entries, input)
      question == Parse("Question", entries, fork(group.head))
      for_lifetimes == Parse("ForLifetimes", entries, question.head)
      path == Parse("TypePath", entries, for_lifetimes.head)
  IN IF group.kind # "None" THEN group
     ELSE IF Raised(<< question, for_lifetimes >>)
     THEN Unwind(<< question, for_lifetimes >>, group.head)
     ELSE IF path.kind # "Some" THEN [path EXCEPT !.head = group.head]
     ELSE Parsed(merge(group.head, path.head))

\* TypeParamBound::parse
ParseTypeParamBound(entries, input) ==
  LET bound == Parse("TraitBound", entries, input)
      lifetime == Parse("Lifetime", entries, bound.head)
  IN IF bound.kind # "None" THEN bound ELSE lifetime

\* TypeParamBounds::parse, `while let Some(parameter) = input.parse()`: the
\* loop runs on `input` itself
RECURSIVE TypeParamBoundsLoop(_, _, _)
TypeParamBoundsLoop(entries, input, pushed) ==
  LET parameter == Parse("TypeParamBound", entries, input)
      plus == Parse("Plus", entries, parameter.head)
  IN IF parameter.kind = "Panic" THEN parameter
     ELSE IF parameter.kind = "None"
     THEN [kind |-> "None", head |-> parameter.head, pushed |-> pushed]
     ELSE IF plus.kind = "Panic" THEN plus
     ELSE TypeParamBoundsLoop(entries, plus.head, pushed + 1)
\* TypeParamBounds::parse
ParseTypeParamBounds(entries, input) ==
  LET loop == TypeParamBoundsLoop(entries, input, 0)
  IN IF loop.kind = "Panic" THEN loop
     ELSE IF loop.pushed = 0 THEN NotParsed(loop.head)
     ELSE Parsed(loop.head)

\* TypeParam::parse
ParseTypeParam(entries, input) ==
  LET identifier == Parse("Identifier", entries, fork(input))
      colon == Parse("Colon", entries, identifier.head)
      bounds == Parse("TypeParamBounds", entries, colon.head)
      after == IF colon.kind = "Some" THEN bounds.head ELSE colon.head
      equals == Parse("Equals", entries, after)
  IN IF identifier.kind # "Some" THEN [identifier EXCEPT !.head = input]
     ELSE IF colon.kind = "Panic" THEN [colon EXCEPT !.head = input]
     ELSE IF colon.kind = "Some" /\ bounds.kind = "Panic"
     THEN [bounds EXCEPT !.head = input]
     ELSE IF equals.kind = "Panic" THEN [equals EXCEPT !.head = input]
     ELSE IF equals.kind = "Some" THEN Panicked(input, "unsupported")
     ELSE Parsed(merge(input, equals.head))

\* GenericParam::parse
ParseGenericParam(entries, input) ==
  LET attribute == Parse("OuterAttribute", entries, fork(input))
      lifetime == Parse("LifetimeParam", entries, attribute.head)
      type == Parse("TypeParam", entries, lifetime.head)
      const == Parse("ConstParam", entries, type.head)
  IN IF attribute.kind = "Panic" THEN [attribute EXCEPT !.head = input]
     ELSE IF attribute.kind = "Some" THEN Panicked(input, "unsupported")
     ELSE IF lifetime.kind = "Panic" THEN [lifetime EXCEPT !.head = input]
     ELSE IF lifetime.kind = "Some" THEN Parsed(merge(input, lifetime.head))
     ELSE IF type.kind = "Panic" THEN [type EXCEPT !.head = input]
     ELSE IF type.kind = "Some" THEN Parsed(merge(input, type.head))
     ELSE IF const.kind = "Panic" THEN [const EXCEPT !.head = input]
     ELSE IF const.kind = "Some" THEN Parsed(merge(input, const.head))
     ELSE NotParsed(input)

\* GenericParams::parse, `while let Some(parameter) = ahead.parse()`
RECURSIVE GenericParamsLoop(_, _)
GenericParamsLoop(entries, ahead) ==
  LET parameter == Parse("GenericParam", entries, ahead)
      comma == Parse("Comma", entries, parameter.head)
  IN IF parameter.kind # "Some" THEN parameter
     ELSE IF comma.kind = "Panic" THEN comma
     ELSE GenericParamsLoop(entries, comma.head)
\* GenericParams::parse
ParseGenericParams(entries, input) ==
  LET opening == Parse("Lt", entries, fork(input))
      loop == GenericParamsLoop(entries, opening.head)
      closing == Parse("Gt", entries, loop.head)
  IN IF opening.kind # "Some" THEN [opening EXCEPT !.head = input]
     ELSE IF loop.kind = "Panic" THEN [loop EXCEPT !.head = input]
     ELSE IF closing.kind # "Some" THEN [closing EXCEPT !.head = input]
     ELSE Parsed(merge(input, closing.head))

\* Cursor::parse::<Type>(): Type::parse(self)
Parsers ==
  {"OuterAttribute", "Visibility", "GenericParams", "GenericParam", "LifetimeParam",
   "LifetimeOrLabel", "LifetimeBounds", "Lifetime", "TypeParam", "TypeParamBounds",
   "TypeParamBound", "TraitBound", "TypePath", "PathIdentSegment", "ConstParam",
   "ForLifetimes"}
Parse(Type, entries, input) ==
  CASE Type = "OuterAttribute" -> ParseOuterAttribute(entries, input)
    [] Type = "Visibility" -> ParseVisibility(entries, input)
    [] Type = "GenericParams" -> ParseGenericParams(entries, input)
    [] Type = "GenericParam" -> ParseGenericParam(entries, input)
    [] Type = "LifetimeParam" -> ParseLifetimeParam(entries, input)
    [] Type = "LifetimeOrLabel" -> ParseLifetimeOrLabel(entries, input)
    [] Type = "LifetimeBounds" -> ParseLifetimeBounds(entries, input)
    [] Type = "Lifetime" -> ParseLifetime(entries, input)
    [] Type = "TypeParam" -> ParseTypeParam(entries, input)
    [] Type = "TypeParamBounds" -> ParseTypeParamBounds(entries, input)
    [] Type = "TypeParamBound" -> ParseTypeParamBound(entries, input)
    [] Type = "TraitBound" -> ParseTraitBound(entries, input)
    [] Type = "TypePath" -> ParseTypePath(entries, input)
    [] Type = "PathIdentSegment" -> ParsePathIdentSegment(entries, input)
    [] Type = "ConstParam" -> ParseConstParam(entries, input)
    [] Type = "ForLifetimes" -> ParseForLifetimes(entries, input)
    [] Type \in EntryKinds -> ParseEntry(Type, entries, input)
    [] Type \in TokenNames -> ParseToken(Type, entries, input)
\* Cursor::peek::<Type>(): Type::peek(self)
Peek(Type, entries, input) ==
  IF Type \in EntryKinds THEN PeekEntry(Type, entries, input)
  ELSE PeekToken(Type, entries, input)

\* ------------------------------------------------------------ input images
\* Field values written into an image: field i has the digits i*8 + 1 ..
\* (most significant first), all distinct.
FieldValue(fam, i) ==
  [k \in 1..ScalarSize(FieldType(fam, i)) |-> (i * 8 + k) % 256]
\* the bytes of a value in the file, in the file's byte order
Encode(endian, value) == IF endian = "BE" THEN value ELSE Reverse(value)
RECURSIVE Body(_, _, _)
Body(fam, endian, i) ==
  IF i = 0 THEN <<>>
  ELSE Body(fam, endian, i - 1) \o Encode(endian, FieldValue(fam, i))
InputFamily(c) == IF c = 2 THEN "ElfType64" ELSE "ElfType32"
InputEndian(d) == IF d = 2 THEN "BE" ELSE "LE"
\* magic with byte `bad` (1..4) changed; bad = 0 leaves it intact
MagicBytes(bad) == [i \in 1..Len(ELFMAG) |-> IF i = bad THEN (ELFMAG[i] + 1) % 256 ELSE ELFMAG[i]]
IdentRest == [j \in 1..(IdentSize - Len(ELFMAG) - 2) |-> 128 + j]
FullImage(bad, c, d) ==
  MagicBytes(bad) \o << c, d >> \o IdentRest
    \o Body(InputFamily(c), InputEndian(d), Len(HeaderFields))
\* the first len bytes of an image followed by arbitrary further bytes
Image(full, len) ==
  [i \in 1..len |-> IF i <= Len(full) THEN full[i] ELSE (128 + i) % 256]
Fill(len, seed) == [i \in 1..len |-> (seed * 16 + i) % 256]

\* ------------------------------------------------------------------ state
VARIABLES
  unaligned,   \* cargo feature "unaligned"
  checks,      \* build with overflow checks and debug assertions
  target,      \* byte order of the target processor
  data,        \* the byte slice handed to the operation
  fields,      \* the field values encoded into data (parse_elf inputs)
  pc,          \* position in the running operation
  call,        \* the operation invoked and its arguments
  reads,       \* read_bytes requests issued so far, in order
  bytes,       \* outcome of the read_bytes call inside read_pod
  magic,       \* parse_elf: local `magic`
  format,      \* parse_elf: outcome of read_bytes(2, 4)
  variant,     \* parse_elf: the match arm taken
  header,      \* parse_elf: outcome of _ElfFile::parse
  object,      \* the value the operation is invoked on (self), when it has one
  log,         \* calls made so far on the object or to the operating system
  cursors,     \* the cursors alive over the object, by name
  result       \* outcome of the operation

vars == << unaligned, checks, target, data, fields, pc, call, reads, bytes,
           magic, format, variant, header, object, log, cursors, result >>

Unset == [kind |-> "Unset"]
Request(size, offset) == [size |-> size, offset |-> offset]

InitConfig ==
  /\ unaligned \in BOOLEAN
  /\ checks \in BOOLEAN
  /\ target \in Natives

InitLocals ==
  /\ reads = <<>>
  /\ bytes = Unset
  /\ magic = Unset
  /\ format = Unset
  /\ variant = "none"
  /\ header = Unset
  /\ object = Unset
  /\ log = <<>>
  /\ cursors = <<>>
  /\ result = Unset

\* ---------------------------------------------------------------- parse_elf
InitElf ==
  /\ InitConfig
  /\ InitLocals
  /\ \E bad \in 0..Len(ELFMAG), c \in 0..MaxClass, d \in 0..MaxData :
       \E full \in {FullImage(bad, c, d)} :
         \E len \in 0..MaxLen, addr \in 0..MaxAddr :
           /\ data = [ptr |-> addr, bytes |-> Image(full, len)]
           /\ fields = [i \in 1..Len(HeaderFields) |-> FieldValue(InputFamily(c), i)]
  /\ call = [op |-> "parse_elf"]
  /\ pc = "magic"

Finish(r) == /\ result' = r
             /\ pc' = "done"

\* let magic = data.read_bytes(4, 0); if magic != Some(ELFMAG) { return Err }
ReadMagic ==
  /\ pc = "magic"
  /\ \E m \in {ReadBytes(data, Len(ELFMAG), 0, checks)} :
        /\ magic' = m
        /\ reads' = Append(reads, Request(Len(ELFMAG), 0))
        /\ IF m.kind = "Panic" THEN Finish(Panic)
           ELSE IF ~MagicMatches(m) THEN Finish(Empty)
           ELSE /\ pc' = "format"
                /\ UNCHANGED result
  /\ UNCHANGED << object, log, cursors, unaligned, checks, target, data, fields, call, bytes, format,
                  variant, header >>

\* match data.read_bytes(2, 4) { None => Err(Empty), Some(format) => ... }
ReadFormat ==
  /\ pc = "format"
  /\ \E f \in {ReadBytes(data, 2, Len(ELFMAG), checks)} :
        /\ format' = f
        /\ reads' = Append(reads, Request(2, Len(ELFMAG)))
        /\ IF f.kind = "Panic" THEN Finish(Panic)
           ELSE IF f.kind = "None" THEN Finish(Empty)
           ELSE /\ pc' = "match"
                /\ UNCHANGED result
  /\ UNCHANGED << object, log, cursors, unaligned, checks, target, data, fields, call, bytes, magic,
                  variant, header >>

\* match format { &[1, 1] => .., &[2, 1] => .., &[1, 2] => .., &[2, 2] => ..,
\*                _ => Err(Empty) }
MatchFormat ==
  /\ pc = "match"
  /\ \E v \in {Dispatch(format.bytes)} :
       /\ variant' = v
       /\ IF v = "none" THEN Finish(Empty)
          ELSE /\ pc' = "parse"
               /\ UNCHANGED result
  /\ UNCHANGED << object, log, cursors, unaligned, checks, target, data, fields, call, reads, bytes,
                  magic, format, header >>

\* _ElfFile::parse: let header = data.read_pod::<ElfHeader<ElfType>>(0)
ParseHeader ==
  /\ pc = "parse"
  /\ \E T \in {HeaderType(VariantFamily(variant))} :
       \E size \in {size_of(T, unaligned)} :
         \E r \in {ReadBytes(data, size, 0, checks)} :
           /\ reads' = Append(reads, Request(size, 0))
           /\ bytes' = r
           /\ header' = ReadPodOf(r, T, unaligned, checks)
  /\ pc' = "wrap"
  /\ UNCHANGED << object, log, cursors, unaligned, checks, target, data, fields, call, magic, format,
                  variant, result >>

\* Ok(ElfFile::<variant>(_ElfFile::parse(data)?))
Wrap ==
  /\ pc = "wrap"
  /\ IF header.kind = "Ok"
     THEN Finish([kind |-> "Ok", variant |-> variant, header |-> header, data |-> data])
     ELSE Finish(Propagate(header))
  /\ UNCHANGED << object, log, cursors, unaligned, checks, target, data, fields, call, reads, bytes,
                  magic, format, variant, header >>

NextElf == ReadMagic \/ ReadFormat \/ MatchFormat \/ ParseHeader \/ Wrap

SpecElf == InitElf /\ [][NextElf]_vars

\* parse_elf is straight-line sequential code: once called it keeps running
SpecElfRun == SpecElf /\ WF_vars(NextElf)


\* parse_elf on images in which one byte after the class/data pair has been
\* overwritten: the version, the OS/ABI, a padding byte, e_type, e_ehsize of
\* either class, the last header byte, a byte beyond the header
PatchOffsets == {7, 8, 10, 17, 41, 53, 64, 65}
PatchValues == {0, 255}
Patch(image, k, v) == [i \in 1..Len(image) |-> IF i = k THEN v ELSE image[i]]
InitElfBytes ==
  /\ InitConfig
  /\ InitLocals
  /\ \E bad \in {0, Len(ELFMAG)}, c \in 0..MaxClass, d \in 0..MaxData :
       \E full \in {FullImage(bad, c, d)} :
         \E len \in 0..MaxLen, k \in PatchOffsets, v \in PatchValues :
           data = [ptr |-> 1, bytes |-> Patch(Image(full, len), k, v)]
  /\ fields = <<>>
  /\ call = [op |-> "parse_elf"]
  /\ pc = "magic"

SpecElfBytes == InitElfBytes /\ [][NextElf]_vars

\* ------------------------------------------------------------ from_bytes
InitPod ==
  /\ InitConfig
  /\ InitLocals
  /\ \E len \in 0..MaxSliceLen, addr \in 0..MaxPtr, seed \in 0..MaxSeed :
       data = [ptr |-> addr, bytes |-> Fill(len, seed)]
  /\ fields = <<>>
  /\ call = [op |-> "none"]
  /\ pc = "call"

\* T::from_bytes(data)
FromBytesCall ==
  /\ pc = "call"
  /\ \E T \in PodTypes :
       /\ call' = [op |-> "from_bytes", type |-> T]
       /\ Finish(FromBytes(data, T, unaligned, checks))
  /\ UNCHANGED << object, log, cursors, unaligned, checks, target, data, fields, reads, bytes, magic,
                  format, variant, header >>

NextPod == FromBytesCall

SpecPod == InitPod /\ [][NextPod]_vars

\* ---------------------------------------------------------------- Reader
Usizes == (0..MaxSmall) \cup ((UsizeMax - MaxHigh)..UsizeMax)

InitReader ==
  /\ InitConfig
  /\ InitLocals
  /\ \E len \in 0..MaxBufLen, addr \in 0..MaxAddr, seed \in 0..MaxSeed :
       data = [ptr |-> addr, bytes |-> Fill(len, seed)]
  /\ fields = <<>>
  /\ call = [op |-> "none"]
  /\ pc = "call"

\* data.read_bytes(size, offset)
ReadBytesCall ==
  /\ pc = "call"
  /\ \E size \in Usizes, offset \in Usizes :
       /\ call' = [op |-> "read_bytes", size |-> size, offset |-> offset]
       /\ reads' = Append(reads, Request(size, offset))
       /\ \E r \in {ReadBytes(data, size, offset, checks)} :
            /\ bytes' = r
            /\ Finish(r)
  /\ UNCHANGED << object, log, cursors, unaligned, checks, target, data, fields, magic, format,
                  variant, header >>

\* data.read_pod::<T>(offset)
ReadPodCall ==
  /\ pc = "call"
  /\ \E T \in PodTypes, offset \in Usizes :
       \E size \in {size_of(T, unaligned)} :
         \E r \in {ReadBytes(data, size, offset, checks)} :
           /\ call' = [op |-> "read_pod", type |-> T, offset |-> offset]
           /\ reads' = Append(reads, Request(size, offset))
           /\ bytes' = r
           /\ Finish(ReadPodOf(r, T, unaligned, checks))
  /\ UNCHANGED << object, log, cursors, unaligned, checks, target, data, fields, magic, format,
                  variant, header >>

NextReader == ReadBytesCall \/ ReadPodCall

SpecReader == InitReader /\ [][NextReader]_vars


\* ------------------------------------------------------------------ codec
InitIdle ==
  /\ InitConfig
  /\ InitLocals
  /\ data = [ptr |-> 0, bytes |-> <<>>]
  /\ fields = <<>>
  /\ call = [op |-> "none"]

InitCodec ==
  /\ InitIdle
  /\ pc = "write"

\* value = <$endian as ...EndianOperation<$type>>::write($initial)
CodecWrite ==
  /\ pc = "write"
  /\ \E p \in CodecPrimitives, endian \in Endians, convention \in Conventions :
       \E value \in NativeValues(p) :
         /\ call' = [op |-> "codec", type |-> p, endian |-> endian,
                     convention |-> convention, value |-> value]
         /\ object' = Write(convention, endian, value, target)
  /\ pc' = "read"
  /\ UNCHANGED << log, cursors, unaligned, checks, target, data, fields, reads, bytes,
                  magic, format, variant, header, result >>

\* value = <$endian as ...EndianOperation<$type>>::read(value)
CodecRead ==
  /\ pc = "read"
  /\ Finish(Read(call.convention, call.endian, object, target))
  /\ UNCHANGED << object, log, cursors, unaligned, checks, target, data, fields, call,
                  reads, bytes, magic, format, variant, header >>

NextCodec == CodecWrite \/ CodecRead

SpecCodec == InitCodec /\ [][NextCodec]_vars

\* ------------------------------------------------- I16..U64 (get and set)
InitPrimitive ==
  /\ InitIdle
  /\ pc = "from"

\* let mut value = $struct::<$endian>::from(v)
FromCall ==
  /\ pc = "from"
  /\ \E W \in Wrappers, endian \in Endians :
       \E value \in NativeValues(WrapperPrim(W)) :
         /\ call' = [op |-> "from", type |-> W, endian |-> endian, value |-> value]
         /\ object' = From_(endian, value, unaligned, target)
         /\ log' = << value >>
  /\ pc' = "use"
  /\ UNCHANGED << cursors, unaligned, checks, target, data, fields, reads, bytes, magic,
                  format, variant, header, result >>

\* value.set(v)
SetCall ==
  /\ pc = "use"
  /\ Len(log) <= MaxSets
  /\ \E value \in NativeValues(WrapperPrim(call.type)) :
       /\ call' = [call EXCEPT !.op = "set", !.value = value]
       /\ object' = Set_(call.endian, value, unaligned, target)
       /\ log' = Append(log, value)
  /\ UNCHANGED << cursors, unaligned, checks, target, data, fields, pc, reads, bytes,
                  magic, format, variant, header, result >>

\* value.get()
GetCall ==
  /\ pc = "use"
  /\ call' = [call EXCEPT !.op = "get"]
  /\ Finish(Get_(call.endian, object, unaligned, target))
  /\ UNCHANGED << object, log, cursors, unaligned, checks, target, data, fields, reads,
                  bytes, magic, format, variant, header >>

NextPrimitive == FromCall \/ SetCall \/ GetCall

SpecPrimitive == InitPrimitive /\ [][NextPrimitive]_vars


\* --------------------------------------- I16..U64 (derived Eq, Ord, Hash)
Operands == {1, 2, 3}

InitCompare ==
  /\ InitIdle
  /\ pc = "build"

\* let value1 = $struct::<$endian>::from(..); let value2 = ...
FromEach ==
  /\ pc = "build"
  /\ \E W \in Wrappers, endian \in Endians :
       \E values \in [Operands -> NativeValues(WrapperPrim(W))] :
         /\ call' = [op |-> "from", type |-> W, endian |-> endian]
         /\ log' = [i \in 1..Cardinality(Operands) |-> values[i]]
         /\ object' = [i \in 1..Cardinality(Operands) |->
                         From_(endian, values[i], unaligned, target)]
  /\ pc' = "compare"
  /\ UNCHANGED << cursors, unaligned, checks, target, data, fields, reads, bytes, magic,
                  format, variant, header, result >>

\* value_i == value_j, value_i.cmp(&value_j), value_i.hash(..) for each i, j
CompareCall ==
  /\ pc = "compare"
  /\ call' = [call EXCEPT !.op = "compare"]
  /\ Finish([kind |-> "Compared",
             eq |-> [i \in Operands |-> [j \in Operands |->
                       PartialEq(object[i], object[j])]],
             cmp |-> [i \in Operands |-> [j \in Operands |->
                       Cmp(call.type, call.endian, object[i], object[j],
                           unaligned, target)]],
             hash |-> [i \in Operands |-> Hash_(object[i], unaligned, target)]])
  /\ UNCHANGED << object, log, cursors, unaligned, checks, target, data, fields, reads,
                  bytes, magic, format, variant, header >>

NextCompare == FromEach \/ CompareCall

SpecCompare == InitCompare /\ [][NextCompare]_vars


\* ------------------------------------------------- size_of and align_of
InitLayout ==
  /\ InitIdle
  /\ pc = "call"

\* size_of::<ElfIdentification32<BigEndian>>() and the like
SizeOfCall ==
  /\ pc = "call"
  /\ \E struct \in Structs, family \in Families, endian \in Endians :
       /\ call' = [op |-> "size_of", struct |-> struct, family |-> family,
                   endian |-> endian]
       /\ Finish(SizeOfStruct(struct, family, endian, unaligned))
  /\ UNCHANGED << object, log, cursors, unaligned, checks, target, data, fields, reads,
                  bytes, magic, format, variant, header >>

AlignOfCall ==
  /\ pc = "call"
  /\ \E struct \in Structs, family \in Families, endian \in Endians :
       /\ call' = [op |-> "align_of", struct |-> struct, family |-> family,
                   endian |-> endian]
       /\ Finish(AlignOfStruct(struct, family, endian, unaligned))
  /\ UNCHANGED << object, log, cursors, unaligned, checks, target, data, fields, reads,
                  bytes, magic, format, variant, header >>

NextLayout == SizeOfCall \/ AlignOfCall

SpecLayout == InitLayout /\ [][NextLayout]_vars


\* ---------------------------------------------------------- Magic, Display
InitMagic ==
  /\ InitIdle
  /\ pc = "call"

\* Magic([b0, b1, b2, b3]).to_string()
ToStringCall ==
  /\ pc = "call"
  /\ \E renderer \in Renderers, m \in [1..Len(ELFMAG) -> MagicSample] :
       /\ call' = [op |-> "to_string", renderer |-> renderer, magic |-> m]
       /\ Finish(Display(renderer, m))
  /\ UNCHANGED << object, log, cursors, unaligned, checks, target, data, fields, reads,
                  bytes, magic, format, variant, header >>

NextMagic == ToStringCall

SpecMagic == InitMagic /\ [][NextMagic]_vars


\* -------------------------------------------------------- into_constant
InitConstant ==
  /\ InitIdle
  /\ pc = "call"

\* <module>::into_constant(value)
IntoConstantCall ==
  /\ pc = "call"
  /\ \E module \in Modules :
       \E value \in ValuesOf(module) :
         /\ call' = [op |-> "into_constant", module |-> module, value |-> value]
         /\ Finish(IntoConstant(module, value))
  /\ UNCHANGED << object, log, cursors, unaligned, checks, target, data, fields, reads,
                  bytes, magic, format, variant, header >>

NextConstant == IntoConstantCall

SpecConstant == InitConstant /\ [][NextConstant]_vars


\* ------------------------------------------------------------ MappedFile
InitFile ==
  /\ InitIdle
  /\ pc = "call"

\* MappedFile::try_from(&File): file.metadata()?.len().try_into()
TryFromFile ==
  /\ pc = "call"
  /\ \E fd \in 0..MaxFd :
       /\ log' = Append(log, [op |-> "metadata", fd |-> fd])
       /\ \/ /\ call' = [op |-> "try_from", fd |-> fd]
             /\ Finish(IoError("Os"))
          \/ \E length \in (0..MaxFileLen) \cup {UsizeMax + 1} :
               /\ call' = [op |-> "try_from", fd |-> fd, length |-> length]
               /\ IF FitsUsize(length)
                  THEN pc' = "new" /\ UNCHANGED result
                  ELSE Finish(IoError("InvalidData"))
  /\ UNCHANGED << object, cursors, unaligned, checks, target, data, fields, reads,
                  bytes, magic, format, variant, header >>

\* MappedFile::new(fd, length), called on its own
NewCall ==
  /\ pc = "call"
  /\ \E fd \in 0..MaxFd, length \in 0..MaxFileLen :
       call' = [op |-> "new", fd |-> fd, length |-> length]
  /\ pc' = "new"
  /\ UNCHANGED << object, log, cursors, unaligned, checks, target, data, fields, reads,
                  bytes, magic, format, variant, header, result >>

\* if length == 0 { return Err(InvalidInput) }
CheckLength ==
  /\ pc = "new"
  /\ IF LengthRejected(call.length) THEN Finish(IoError("InvalidInput"))
     ELSE pc' = "mmap" /\ UNCHANGED result
  /\ UNCHANGED << object, log, cursors, unaligned, checks, target, data, fields, call,
                  reads, bytes, magic, format, variant, header >>

\* let data = libc::mmap(null, length, PROT_READ, MAP_PRIVATE, fd, 0);
\* if data == MAP_FAILED { return Err(last_os_error()) } Ok(Self { data, length })
Mmap ==
  /\ pc = "mmap"
  /\ log' = Append(log, [op |-> "mmap", fd |-> call.fd, length |-> call.length])
  /\ \E address \in {MAP_FAILED} \cup (1..MaxMap) :
       IF address = MAP_FAILED
       THEN Finish(IoError("Os")) /\ UNCHANGED object
       ELSE /\ object' = MappedFile(address, call.length)
            /\ Finish([kind |-> "Ok"])
  /\ UNCHANGED << cursors, unaligned, checks, target, data, fields, call, reads, bytes,
                  magic, format, variant, header >>

\* impl Drop for MappedFile
Drop ==
  /\ pc = "done"
  /\ object # Unset
  /\ log' = IF Unmaps(object)
            THEN Append(log, [op |-> "munmap", data |-> object.data,
                              length |-> object.length])
            ELSE log
  /\ object' = Unset
  /\ pc' = "dropped"
  /\ UNCHANGED << cursors, unaligned, checks, target, data, fields, call, reads, bytes,
                  magic, format, variant, header, result >>

NextFile == TryFromFile \/ NewCall \/ CheckLength \/ Mmap \/ Drop

SpecFile == InitFile /\ [][NextFile]_vars


\* ------------------------------------------------------- ElfSectionTable
\* values of e_shentsize: the small ones, and the byte swaps of 40 and 64
Entsizes == (0..MaxEntsize) \cup {40 * 256, 64 * 256}

InitSections ==
  /\ InitConfig
  /\ InitLocals
  /\ \E len \in 0..MaxSmall, seed \in 0..MaxSeed :
       data = [ptr |-> 0, bytes |-> Fill(len, seed)]
  /\ fields = <<>>
  /\ call = [op |-> "none"]
  /\ pc = "call"

\* ElfSectionTable::parse(data, header): let section_size = ..;
\* if section_size != size_of::<ElfSection<ElfType>>() { return Err(()) }
CheckEntsize ==
  /\ pc = "call"
  /\ \E family \in Families, endian \in Endians, n \in Entsizes :
       \E stored \in {From_(endian, Half(n), unaligned, target)} :
         /\ call' = [op |-> "ElfSectionTable::parse", family |-> family,
                     endian |-> endian, e_shentsize |-> n,
                     header |-> [e_shentsize |-> stored]]
         /\ IF EntsizeMismatch(IntoUsize(endian, stored, unaligned, target),
                               family, endian, unaligned)
            THEN Finish(ErrUnit)
            ELSE pc' = "todo" /\ UNCHANGED result
  /\ UNCHANGED << object, log, cursors, unaligned, checks, target, data, fields, reads,
                  bytes, magic, format, variant, header >>

\* // TODO
\* Err(())
Todo ==
  /\ pc = "todo"
  /\ Finish(SectionTableStub)
  /\ UNCHANGED << object, log, cursors, unaligned, checks, target, data, fields, call,
                  reads, bytes, magic, format, variant, header >>

NextSections == CheckEntsize \/ Todo

SpecSections == InitSections /\ [][NextSections]_vars


\* ------------------------------------------------------------------ Cursor
ItemValues == {1, 2}
ItemSequences == UNION {[1..n -> ItemValues] : n \in 0..MaxItems}
Handles == {"c1", "c2", "c3"}
\* the macro crate has no cargo feature and no byte order of its own; only
\* the overflow checks of the build matter
InitCursorLocals ==
  /\ unaligned = FALSE /\ target = "little" /\ checks \in BOOLEAN
  /\ data = [ptr |-> 0, bytes |-> <<>>] /\ fields = <<>>
  /\ reads = <<>> /\ bytes = Unset /\ magic = Unset /\ format = Unset
  /\ variant = "none" /\ header = Unset /\ log = <<>> /\ result = Unset
  /\ pc = "ready"

\* Cursor::from(items)
InitCursor ==
  /\ InitCursorLocals
  /\ \E kind \in IteratorKinds, items \in ItemSequences :
       object = CursorNew(Iterator(kind, items))
  /\ cursors = <<>>
  /\ call = [op |-> "Cursor::from"]

\* cursor.next()
CursorNextCall ==
  /\ pc = "ready"
  /\ \E r \in {CursorNext(object)} :
       /\ object' = r.cursor
       /\ result' = r.result
  /\ call' = [op |-> "Cursor::next"]
  /\ pc' = IF result'.kind = "Panic" THEN "done" ELSE "ready"
  /\ UNCHANGED << log, cursors, unaligned, checks, target, data, fields, reads, bytes,
                  magic, format, variant, header >>

\* cursor.prev()
CursorPrevCall ==
  /\ pc = "ready"
  /\ \E r \in {CursorPrev(object)} :
       /\ object' = r.cursor
       /\ result' = r.result
  /\ call' = [op |-> "Cursor::prev"]
  /\ pc' = IF result'.kind = "Panic" THEN "done" ELSE "ready"
  /\ UNCHANGED << log, cursors, unaligned, checks, target, data, fields, reads, bytes,
                  magic, format, variant, header >>

\* cursor.nth(index)
CursorNthCall ==
  /\ pc = "ready"
  /\ \E index \in 0..(MaxItems + 1) :
       \E r \in {CursorNth(object, index, checks)} :
         /\ object' = r.cursor
         /\ result' = r.peek
         /\ call' = [op |-> "Cursor::nth", index |-> index]
         /\ log' = IF r.underflow THEN Append(log, "vector.len() - 1") ELSE log
  /\ pc' = IF result'.kind = "Panic" THEN "done" ELSE "ready"
  /\ UNCHANGED << cursors, unaligned, checks, target, data, fields, reads, bytes,
                  magic, format, variant, header >>

NextCursor == CursorNextCall \/ CursorPrevCall \/ CursorNthCall

SpecCursor == InitCursor /\ [][NextCursor]_vars

\* ------------------------------------------------------------ SharedCursor
\* SharedCursor::from(items), held as c1
InitShared ==
  /\ InitCursorLocals
  /\ \E kind \in IteratorKinds, items \in ItemSequences :
       object = CursorNew(Iterator(kind, items))
  /\ cursors = [c \in {"c1"} |-> None]
  /\ call = [op |-> "SharedCursor::from"]

\* let new = on.fork()
ForkCall ==
  /\ pc = "ready"
  /\ \E on \in DOMAIN cursors, new \in Handles \ DOMAIN cursors :
       /\ cursors' = [c \in DOMAIN cursors \cup {new} |->
                        IF c = new THEN SharedFork(cursors[on]) ELSE cursors[c]]
       /\ call' = [op |-> "SharedCursor::fork", on |-> on, new |-> new]
  /\ result' = Unset
  /\ UNCHANGED << object, log, pc, unaligned, checks, target, data, fields, reads, bytes,
                  magic, format, variant, header >>

\* on.merge(other): other is moved into the call and dropped
MergeCall ==
  /\ pc = "ready"
  /\ \E on \in DOMAIN cursors : \E other \in DOMAIN cursors \ {on} :
       /\ cursors' = [c \in DOMAIN cursors \ {other} |->
                        IF c = on THEN SharedMerge(cursors[on], cursors[other])
                        ELSE cursors[c]]
       /\ call' = [op |-> "SharedCursor::merge", on |-> on, other |-> other]
  /\ result' = Unset
  /\ UNCHANGED << object, log, pc, unaligned, checks, target, data, fields, reads, bytes,
                  magic, format, variant, header >>

\* on.next()
SharedNextCall ==
  /\ pc = "ready"
  /\ \E on \in DOMAIN cursors :
       \E r \in {SharedNext(object, cursors[on], checks)} :
         /\ object' = r.inner
         /\ cursors' = [cursors EXCEPT ![on] = r.index]
         /\ result' = r.result
         /\ log' = IF r.underflow THEN Append(log, "vector.len() - 1") ELSE log
         /\ call' = [op |-> "SharedCursor::next", on |-> on]
  /\ pc' = IF result'.kind = "Panic" THEN "done" ELSE "ready"
  /\ UNCHANGED << unaligned, checks, target, data, fields, reads, bytes,
                  magic, format, variant, header >>

\* on.prev()
SharedPrevCall ==
  /\ pc = "ready"
  /\ \E on \in DOMAIN cursors :
       \E r \in {SharedPrev(object, cursors[on], checks)} :
         /\ object' = r.inner
         /\ cursors' = [cursors EXCEPT ![on] = r.index]
         /\ result' = r.result
         /\ log' = IF r.underflow THEN Append(log, "vector.len() - 1") ELSE log
         /\ call' = [op |-> "SharedCursor::prev", on |-> on]
  /\ pc' = IF result'.kind = "Panic" THEN "done" ELSE "ready"
  /\ UNCHANGED << unaligned, checks, target, data, fields, reads, bytes,
                  magic, format, variant, header >>

NextShared == ForkCall \/ MergeCall \/ SharedNextCall \/ SharedPrevCall

SpecShared == InitShared /\ [][NextShared]_vars

\* ------------------------------------------------------------ display_table
\* the title "Fafa"; cells "a", "bc" and "é" (one character, two bytes), and
\* a value whose Display fails
Title == << 70, 97, 102, 97 >>
CellSample == {Written(<< 97 >>), Written(<< 98, 99 >>), Written(<< 233 >>), FmtError}
RowSample == UNION {[1..n -> CellSample] : n \in 0..MaxCells}
InitTable ==
  /\ unaligned = FALSE /\ checks = FALSE /\ target = "little"
  /\ InitLocals
  /\ data = [ptr |-> 0, bytes |-> <<>>] /\ fields = <<>>
  /\ call = [op |-> "none"]
  /\ pc = "title"

\* let mut table = formatter.display_table(title)
DisplayTableCall ==
  /\ pc = "title"
  /\ object' = display_table(Title)
  /\ call' = [op |-> "display_table", title |-> Title]
  /\ pc' = "rows"
  /\ UNCHANGED << log, cursors, unaligned, checks, target, data, fields, reads, bytes,
                  magic, format, variant, header, result >>

\* table.row(&[values])
RowCall ==
  /\ pc = "rows"
  /\ Len(log) < MaxRows
  /\ \E values \in RowSample :
       /\ object' = row(object, values)
       /\ log' = Append(log, values)
       /\ call' = [op |-> "row", values |-> values]
  /\ UNCHANGED << pc, cursors, unaligned, checks, target, data, fields, reads, bytes,
                  magic, format, variant, header, result >>

\* table.finish()
FinishCall ==
  /\ pc = "rows"
  /\ \E r \in {finish(object)} :
       /\ object' = r.table
       /\ Finish(r.result)
  /\ call' = [op |-> "finish"]
  /\ UNCHANGED << log, cursors, unaligned, checks, target, data, fields, reads, bytes,
                  magic, format, variant, header >>

NextTable == DisplayTableCall \/ RowCall \/ FinishCall

SpecTable == InitTable /\ [][NextTable]_vars

\* ---------------------------------------------------- derive: token cursor
\* The token streams the buffer is built from: every prefix of a few
\* declarations, fragments of declarations and groups.
a == Identifier("a")
T == Identifier("T")
P(char) == Punctuation(char)
StreamSamples ==
  { << P("<"), P("'"), a, P(":"), P("'"), a, P("+"), P("'"), P("_"), P(">") >>,
    << P("<"), T, P(":"), T, P(":"), P(":"), T, P("+"), P("'"), a, P(">") >>,
    << P("#"), GroupTree("Bracket", << a >>), Identifier("pub"),
       GroupTree("Parenthesis", << Identifier("crate") >>), Identifier("pub"), T >>,
    << P("<"), T, P("="), Literal, P(">") >>,
    << P("<"), T, P(":"), GroupTree("Parenthesis", << T >>), P("+"), P("?"), T,
       P(","), P(">") >>,
    << P("<"), P("#"), GroupTree("Bracket", <<>>), T, P(">") >>,
    << P("$"), Identifier("crate"), P(":"), P(":"), T, P(":"), P(":"), P("$"), P("<") >>,
    << P("?"), P("<"), Identifier("for"), Identifier("const"), T, P(">") >>,
    << GroupTree("Brace", << GroupTree("Brace", <<>>), P(";") >>), P("'"), a, P(":"),
       P("'"), P("<") >> }
MaxPrefix == 2
Streams ==
  StreamSamples \cup { SubSeq(stream, 1, n) : stream \in StreamSamples, n \in 0..MaxPrefix }
Names == {"input", "ahead"}

\* let buffer = Buffer::from(stream); let input = buffer.cursor()
InitDerive ==
  /\ unaligned = FALSE /\ target = "little" /\ checks = TRUE
  /\ data = [ptr |-> 0, bytes |-> <<>>] /\ fields = <<>>
  /\ reads = <<>> /\ bytes = Unset /\ magic = Unset /\ format = Unset
  /\ variant = "none" /\ header = Unset /\ log = <<>> /\ result = Unset
  /\ pc = "ready"
  /\ \E stream \in Streams : object = BufferFrom(stream)
  /\ cursors = [c \in {"input"} |-> HeadNew(object)]
  /\ call = [op |-> "Buffer::from"]

\* on.parse::<Type>()
ParseCall ==
  /\ pc = "ready"
  /\ \E on \in DOMAIN cursors, Type \in Parsers \cup TokenNames \cup EntryKinds :
       \E r \in {Parse(Type, object, cursors[on])} :
         /\ cursors' = [cursors EXCEPT ![on] = r.head]
         /\ result' = IF r.kind = "Panic" THEN [kind |-> "Panic", cause |-> r.cause]
                      ELSE [kind |-> r.kind]
         /\ call' = [op |-> "parse", on |-> on, type |-> Type]
  /\ pc' = IF result'.kind = "Panic" THEN "done" ELSE "ready"
  /\ UNCHANGED << object, log, unaligned, checks, target, data, fields, reads, bytes,
                  magic, format, variant, header >>

\* on.peek::<Type>(): the cursor is borrowed, the cursor `next` that take
\* returns is dropped
PeekCall ==
  /\ pc = "ready"
  /\ \E on \in DOMAIN cursors, Type \in TokenNames \cup EntryKinds :
       /\ result' = [kind |-> "Bool", value |-> Peek(Type, object, cursors[on])]
       /\ call' = [op |-> "peek", on |-> on, type |-> "Token"]
  /\ UNCHANGED << cursors, pc, object, log, unaligned, checks, target, data, fields, reads,
                  bytes, magic, format, variant, header >>

\* if let Some((token, new)) = on.take::<kind>()
TakeCall ==
  /\ pc = "ready"
  /\ \E on \in DOMAIN cursors, new \in Names, kind \in EntryKinds :
       \E taken \in {take(kind, object, cursors[on])} :
         /\ new # on
         /\ cursors' = IF taken = None \/ taken.next = Panic THEN cursors
                       ELSE [c \in DOMAIN cursors \cup {new} |->
                               IF c = new THEN taken.next ELSE cursors[c]]
         /\ result' = IF taken = None THEN None
                      ELSE IF taken.next = Panic THEN [kind |-> "Panic", cause |-> "step"]
                      ELSE [kind |-> "Some"]
         /\ call' = [op |-> "take", on |-> on, type |-> "Entry"]
  /\ pc' = IF result'.kind = "Panic" THEN "done" ELSE "ready"
  /\ UNCHANGED << object, log, unaligned, checks, target, data, fields, reads, bytes,
                  magic, format, variant, header >>

\* let new = on.fork()
CursorForkCall ==
  /\ pc = "ready"
  /\ \E on \in DOMAIN cursors, new \in Names \ DOMAIN cursors :
       /\ cursors' = [c \in DOMAIN cursors \cup {new} |->
                        IF c = new THEN fork(cursors[on]) ELSE cursors[c]]
       /\ call' = [op |-> "fork", on |-> on, type |-> "Cursor"]
  /\ result' = Unset
  /\ UNCHANGED << pc, object, log, unaligned, checks, target, data, fields, reads, bytes,
                  magic, format, variant, header >>

\* on.merge(other): other is moved into the call and dropped
CursorMergeCall ==
  /\ pc = "ready"
  /\ \E on \in DOMAIN cursors : \E other \in DOMAIN cursors \ {on} :
       /\ cursors' = [c \in DOMAIN cursors \ {other} |->
                        IF c = on THEN merge(cursors[on], cursors[other]) ELSE cursors[c]]
       /\ call' = [op |-> "merge", on |-> on, type |-> "Cursor"]
  /\ result' = Unset
  /\ UNCHANGED << pc, object, log, unaligned, checks, target, data, fields, reads, bytes,
                  magic, format, variant, header >>

\* let new = on.step(), called on a cursor wherever it is
StepCall ==
  /\ pc = "ready"
  /\ \E on \in DOMAIN cursors, new \in Names :
       \E next \in {step(object, cursors[on])} :
         /\ new # on
         /\ cursors' = IF next = Panic THEN cursors
                       ELSE [c \in DOMAIN cursors \cup {new} |->
                               IF c = new THEN next ELSE cursors[c]]
         /\ result' = IF next = Panic THEN [kind |-> "Panic", cause |-> "step"]
                      ELSE [kind |-> "Some"]
         /\ call' = [op |-> "step", on |-> on, type |-> "Cursor"]
  /\ pc' = IF result'.kind = "Panic" THEN "done" ELSE "ready"
  /\ UNCHANGED << object, log, unaligned, checks, target, data, fields, reads, bytes,
                  magic, format, variant, header >>

NextDerive ==
  ParseCall \/ PeekCall \/ TakeCall \/ CursorForkCall \/ CursorMergeCall \/ StepCall

SpecDerive == InitDerive /\ [][NextDerive]_vars

\* ================================================================== claims
\* what the claims say about an input of parse_elf, read off the input bytes
Done(op) == pc = "done" /\ call.op = op
InputLen == Len(data.bytes)
StartsWithMagic ==
  /\ InputLen >= 4
  /\ data.bytes[1] = 127 /\ data.bytes[2] = 69
  /\ data.bytes[3] = 76 /\ data.bytes[4] = 70
HasPair(c, d) == InputLen >= 6 /\ data.bytes[5] = c /\ data.bytes[6] = d
ValidPair == \E c \in {1, 2}, d \in {1, 2} : HasPair(c, d)
ClassHeaderBytes(c) == IF c = 1 THEN 52 ELSE 64
ClassHeaderAlign(c) == IF unaligned THEN 1 ELSE IF c = 1 THEN 4 ELSE 8
PairVariant(c, d) ==
  CASE c = 1 /\ d = 1 -> "Elf32Le"
    [] c = 2 /\ d = 1 -> "Elf64Le"
    [] c = 1 /\ d = 2 -> "Elf32Be"
    [] c = 2 /\ d = 2 -> "Elf64Be"
ParsedAs(v) ==
  /\ result.kind = "Ok"
  /\ result.variant = v
  /\ \A i \in 1..Len(HeaderFields) :
       HeaderField(result.variant, result.header, i, unaligned, target) = fields[i]

\* C1 (as claimed): for each class/data pair (1,1), (2,1), (1,2), (2,2), every
\* buffer that starts with the magic and is at least as long as the header of
\* that class parses into Elf32Le, Elf64Le, Elf32Be, Elf64Be, and every header
\* field decoded from the result equals the value encoded in the input.
C1_DispatchAnyAddress ==
  \A c \in {1, 2}, d \in {1, 2} :
    (Done("parse_elf") /\ StartsWithMagic /\ HasPair(c, d)
       /\ InputLen >= ClassHeaderBytes(c))
      => ParsedAs(PairVariant(c, d))

\* C1 (amended): the same, for buffers whose start address is a multiple of
\* the header's alignment (every address in the unaligned configuration).
C1_DispatchComplete ==
  \A c \in {1, 2}, d \in {1, 2} :
    (Done("parse_elf") /\ StartsWithMagic /\ HasPair(c, d)
       /\ InputLen >= ClassHeaderBytes(c)
       /\ data.ptr % ClassHeaderAlign(c) = 0)
      => ParsedAs(PairVariant(c, d))

C1_Witness ==
  /\ Done("parse_elf") /\ StartsWithMagic /\ HasPair(2, 2)
  /\ ~unaligned /\ target = "little" /\ InputLen = 64
  /\ ParsedAs("Elf64Be")

\* C2: a buffer that does not start with 7F 45 4C 46 (or is shorter than four
\* bytes) is rejected, and at no moment has any read other than the one of
\* the four magic bytes been issued: the class/data bytes and the header are
\* never read.
C2_MagicGate ==
  (call.op = "parse_elf" /\ ~StartsWithMagic) =>
    /\ \A k \in 1..Len(reads) : reads[k] = Request(4, 0)
    /\ pc \in {"magic", "done"}
    /\ format = Unset /\ variant = "none" /\ bytes = Unset /\ header = Unset
    /\ pc = "done" => result.kind = "Err"

C2_Witness ==
  /\ Done("parse_elf") /\ ~StartsWithMagic /\ HasPair(1, 1) /\ InputLen >= 52
  /\ data.bytes[4] # 70
  /\ result.kind = "Err" /\ reads = << Request(4, 0) >>

\* C3: with a valid magic, parse_elf fails for every class/data pair other
\* than (1,1), (2,1), (1,2), (2,2) and for a buffer too short to hold bytes 4
\* and 5; no variant is produced and no header is read.
C3_InvalidFormat ==
  (Done("parse_elf") /\ StartsWithMagic /\ ~ValidPair) =>
    /\ result.kind = "Err"
    /\ variant = "none"
    /\ header = Unset

C3_Witness ==
  /\ Done("parse_elf") /\ StartsWithMagic /\ HasPair(2, 0) /\ InputLen >= 64
  /\ result.kind = "Err"

\* C4: with valid magic and class/data, when read_pod of the header fails
\* (buffer shorter than the header: Empty; misaligned buffer in the aligned
\* configuration: AlignOfMismatch with the buffer's address and the header's
\* alignment) parse_elf returns exactly that error and no parsed object.
C4_HeaderErrorUnchanged ==
  \A c \in {1, 2}, d \in {1, 2} :
    (Done("parse_elf") /\ StartsWithMagic /\ HasPair(c, d)) =>
      /\ InputLen < ClassHeaderBytes(c) => result = Empty
      /\ (InputLen >= ClassHeaderBytes(c) /\ data.ptr % ClassHeaderAlign(c) # 0)
           => result = AlignOfMismatch(data.ptr, ClassHeaderAlign(c))
      /\ header.kind = "Err" => result = header

C4_Witness ==
  /\ Done("parse_elf") /\ StartsWithMagic /\ HasPair(2, 1) /\ InputLen >= 64
  /\ data.ptr = 4
  /\ result = AlignOfMismatch(4, 8)

\* C5: on every buffer parse_elf eventually returns, and what it returns is
\* one of the four variants or an error value; it never panics.
C5_Returns ==
  /\ result.kind # "Panic"
  /\ pc # "done" => result = Unset
  /\ pc = "done" =>
       \/ result.kind = "Err"
       \/ result.kind = "Ok" /\ result.variant \in Variants
C5_Total == <>(pc = "done") /\ []C5_Returns

C5_Witness ==
  /\ Done("parse_elf") /\ InputLen = 5 /\ StartsWithMagic /\ checks
  /\ result = Empty

\* C6 (as claimed): from_bytes succeeds if and only if the slice length equals
\* size_of::<T>(), and fails with SizeOfMismatch{length, size_of} otherwise.
C6_SizeIff ==
  Done("from_bytes") =>
    /\ result.kind = "Ok" <=> InputLen = size_of(call.type, unaligned)
    /\ InputLen # size_of(call.type, unaligned)
         => result = SizeOfMismatch(InputLen, size_of(call.type, unaligned))

\* C6 (amended): from_bytes fails with SizeOfMismatch{length: L, size_of:
\* size_of::<T>()} if and only if L differs from size_of::<T>(); it succeeds
\* only if L equals size_of::<T>(), and does succeed when moreover the slice
\* starts at a multiple of align_of::<T>().  A 3-byte slice cast to the
\* 16-byte Dada gives length 3, size_of 16.
C6_SizeProperty ==
  Done("from_bytes") =>
    /\ InputLen # size_of(call.type, unaligned)
         <=> result = SizeOfMismatch(InputLen, size_of(call.type, unaligned))
    /\ result.kind = "Ok" => InputLen = size_of(call.type, unaligned)
    /\ (InputLen = size_of(call.type, unaligned)
          /\ data.ptr % align_of(call.type, unaligned) = 0) => result.kind = "Ok"
    /\ (call.type = "Dada" /\ InputLen = 3) => result = SizeOfMismatch(3, 16)

C6_Witness ==
  /\ Done("from_bytes") /\ call.type = "Dada" /\ InputLen = 3
  /\ result.kind = "Err" /\ result.error = "SizeOfMismatch"

\* C7: in the aligned configuration a slice of the right size whose address
\* is not a multiple of align_of::<T>() fails with AlignOfMismatch carrying
\* that address and align_of::<T>(), and the same bytes at an aligned address
\* succeed; in the unaligned configuration from_bytes never reports
\* AlignOfMismatch.
C7_Alignment ==
  Done("from_bytes") =>
    /\ (~unaligned /\ InputLen = size_of(call.type, unaligned)) =>
         IF data.ptr % align_of(call.type, unaligned) # 0
         THEN result = AlignOfMismatch(data.ptr, align_of(call.type, unaligned))
         ELSE result.kind = "Ok" /\ result.bytes = data.bytes
    /\ (~unaligned /\ call.type = "Dada" /\ InputLen = 16 /\ data.ptr % 8 # 0)
         => result = AlignOfMismatch(data.ptr, 8)
    /\ unaligned => ~(result.kind = "Err" /\ result.error = "AlignOfMismatch")

C7_Witness ==
  /\ Done("from_bytes") /\ ~unaligned /\ call.type = "Dada" /\ InputLen = 16
  /\ data.ptr = 1
  /\ result = AlignOfMismatch(1, 8)

\* C8: read_bytes(size, offset) returns None whenever [offset, offset+size)
\* exceeds the buffer, for every pair of usize arguments (also those whose
\* sum exceeds the maximum usize); it never panics and never returns bytes
\* from outside the buffer.
C8_ReadBytesSafe ==
  Done("read_bytes") =>
    /\ result.kind # "Panic"
    /\ call.offset + call.size > InputLen => result = None
    /\ result.kind = "Some" =>
         /\ call.offset + Len(result.bytes) <= InputLen
         /\ result.ptr >= data.ptr
         /\ result.ptr + Len(result.bytes) <= data.ptr + InputLen

\* C9: read_bytes(size, offset) with offset + size <= length() returns Some of
\* exactly the size bytes starting at index offset, in order (3 bytes at
\* offset 2 of [1,2,3,4,5,6] are [3,4,5]); a zero-size read at offset ==
\* length() gives an empty slice.
C9_ReadBytesExact ==
  (Done("read_bytes") /\ call.offset + call.size <= InputLen) =>
    /\ result.kind = "Some"
    /\ result.bytes = [i \in 1..call.size |-> data.bytes[call.offset + i]]
    /\ result.ptr = data.ptr + call.offset
    /\ (call.size = 0 /\ call.offset = InputLen) => result.bytes = <<>>

C9_Witness ==
  /\ Done("read_bytes") /\ data.bytes = << 1, 2, 3, 4, 5, 6 >>
  /\ call.size = 3 /\ call.offset = 2
  /\ result.kind = "Some" /\ result.bytes = << 3, 4, 5 >>

\* C10: read_pod::<T>(offset) issues exactly one read_bytes request, of
\* size_of::<T>() bytes at offset; when that returns None it fails with
\* BytesError::Empty, and otherwise its result is what from_bytes makes of
\* exactly those bytes (Dada at offset 8 of a 24-byte buffer is built from
\* bytes 8..24 only).
C10_ReadPod ==
  Done("read_pod") =>
    /\ reads = << Request(size_of(call.type, unaligned), call.offset) >>
    /\ bytes.kind = "None" => result = Empty
    /\ (call.offset + size_of(call.type, unaligned) > InputLen
          /\ result.kind # "Panic") => result = Empty
    /\ bytes.kind = "Some" =>
         /\ bytes.bytes = SubSeq(data.bytes, call.offset + 1,
                                 call.offset + size_of(call.type, unaligned))
         /\ result.kind \in {"Ok", "Err", "Panic"}
         /\ result.kind = "Err" =>
              /\ result.error = "AlignOfMismatch"
              /\ result.pointer = data.ptr + call.offset
         /\ result.kind = "Ok" =>
              /\ result.bytes = bytes.bytes
              /\ result.ptr = data.ptr + call.offset
         /\ (data.ptr + call.offset) % align_of(call.type, unaligned) = 0
              => result.kind = "Ok"
    /\ (call.type = "Dada" /\ call.offset = 8 /\ InputLen = 24 /\ data.ptr % 8 = 0)
         => result = Ok("Dada", [ptr |-> data.ptr + 8,
                                 bytes |-> SubSeq(data.bytes, 9, 24)])

C10_Witness ==
  /\ Done("read_pod") /\ call.type = "Dada" /\ call.offset = 8 /\ InputLen = 24
  /\ data.ptr = 0
  /\ result.kind = "Ok" /\ result.bytes = SubSeq(data.bytes, 9, 24)

\* C11: for both byte orders, each of i16, u16, i32, u32, i64, u64 and both
\* calling conventions (aligned native integer, unaligned byte array),
\* read(write(v)) = v for every v, among them 0, the minimum and the maximum
\* of the type; the encoded form has the width of the type.
C11_RoundTrip ==
  /\ Done("codec") => result = call.value
  /\ call.op = "codec" => Len(object) = PrimSize(call.type)

C11_Witness ==
  /\ Done("codec") /\ call.type = "i64" /\ call.endian = "BE"
  /\ call.convention = "aligned" /\ target = "little"
  /\ call.value = MIN("i64") /\ object = << 0, 0, 0, 0, 0, 0, 0, 128 >>
  /\ result = << 128, 0, 0, 0, 0, 0, 0, 0 >>

\* C12: for I16..U64 over either byte order, from(v).get() = v, and after any
\* sequence of set calls get() returns the value passed to the most recent
\* set, whatever the earlier values were.
C12_GetSet ==
  Done("get") =>
    /\ result = log[Len(log)]
    /\ result = call.value
    /\ Len(log) = 1 => result = log[1]

C12_Witness ==
  /\ Done("get") /\ call.type = "U32" /\ call.endian = "BE"
  /\ ~unaligned /\ target = "little"
  /\ log = << Zero("u32"), MAX("u32"), Initial("u32", 0) >>
  /\ object = << 68, 51, 34, 17 >>
  /\ result = << 17, 34, 51, 68 >>

\* C13: equality, ordering and hashing of I16..U64 are those of the stored
\* representation: two wrappers are equal exactly when their stored digits
\* are, a is less than b exactly when at the first digit where the stored
\* representations differ a's is the smaller (as an integer of the type in
\* the aligned flavour, as a byte array in the unaligned one), and the hasher
\* is fed the stored bytes, which are the value's bytes in the wrapper's byte
\* order.  Equality is reflexive, symmetric and transitive, equal wrappers
\* hash alike, and wrappers built by from from the same native value in the
\* same byte order are equal.
StoredDigit(i, k) ==
  IF k = 1 /\ ~unaligned /\ IsSigned(WrapperPrim(call.type))
  THEN (object[i][k] + 128) % 256 ELSE object[i][k]
StoredLess(i, j) ==
  \E k \in 1..Len(object[i]) :
    /\ StoredDigit(i, k) < StoredDigit(j, k)
    /\ \A m \in 1..(k - 1) : object[i][m] = object[j][m]
C13_StoredOrder ==
  Done("compare") =>
    /\ \A i \in Operands, j \in Operands :
         /\ result.eq[i][j] <=> object[i] = object[j]
         /\ result.eq[i][j] <=> result.eq[j][i]
         /\ result.eq[i][j] <=> result.cmp[i][j] = "Equal"
         /\ result.cmp[i][j] = "Less" <=> StoredLess(i, j)
         /\ result.cmp[i][j] = "Greater" <=> StoredLess(j, i)
         /\ result.eq[i][j] => result.hash[i] = result.hash[j]
         /\ log[i] = log[j] => result.eq[i][j]
         /\ \A k \in Operands :
              (result.eq[i][j] /\ result.eq[j][k]) => result.eq[i][k]
    /\ \A i \in Operands :
         /\ result.eq[i][i]
         /\ SubSeq(result.hash[i], Len(result.hash[i]) - Len(log[i]) + 1,
                   Len(result.hash[i])) = Encode(call.endian, log[i])

\* on a little-endian target the big-endian 1 is stored as 0x0100 and the
\* big-endian 0x0100 as 1: the wrapper of 1 is the greater one
C13_Witness ==
  /\ Done("compare") /\ call.type = "U16" /\ call.endian = "BE"
  /\ ~unaligned /\ target = "little"
  /\ log = << One("u16"), High("u16"), One("u16") >>
  /\ object[1] = << 1, 0 >> /\ object[2] = << 0, 1 >>
  /\ result.cmp[1][2] = "Greater" /\ result.eq[1][3] /\ ~result.eq[1][2]
  /\ result.hash[1] = << 0, 1 >>

\* C14: ElfIdentification occupies exactly 16 bytes (4 magic bytes, class,
\* data, version, OS/ABI, ABI version and 7 padding bytes) for the 32-bit
\* and the 64-bit family and for both byte orders.
C14_IdentificationSize ==
  (pc = "done" /\ call.struct = "ElfIdentification") =>
    /\ call.op = "size_of" => result = 16
    /\ call.op = "size_of" => result = 4 + 1 + 1 + 1 + 1 + 1 + 7
    /\ call.op = "align_of" => result = 1

C14_Witness ==
  /\ Done("size_of") /\ call.struct = "ElfIdentification"
  /\ call.family = "ElfType64" /\ call.endian = "BE" /\ ~unaligned
  /\ result = 16

\* C15: when from_bytes succeeds the reference it returns starts at the
\* address of the input slice and covers exactly its bytes: nothing is
\* copied, and the fields seen through it are the input bytes at the offsets
\* of the type's layout (Dada: a at 0, b at 8, c at 12, d at 14).
C15_ZeroCopy ==
  (Done("from_bytes") /\ result.kind = "Ok") =>
    /\ result.ptr = data.ptr
    /\ result.bytes = data.bytes
    /\ result.type = call.type
    /\ call.type = "Dada" =>
         /\ DadaField(result, 1, target) = NativeLoad(SubSeq(data.bytes, 1, 8), target)
         /\ DadaField(result, 2, target) = NativeLoad(SubSeq(data.bytes, 9, 12), target)
         /\ DadaField(result, 3, target) = NativeLoad(SubSeq(data.bytes, 13, 14), target)
         /\ DadaField(result, 4, target) = << data.bytes[15] >>

C15_Witness ==
  /\ Done("from_bytes") /\ call.type = "Dada" /\ InputLen = 16 /\ data.ptr = 8
  /\ result.kind = "Ok" /\ result.ptr = 8 /\ target = "big"
  /\ DadaField(result, 2, target) = << 9, 10, 11, 12 >>

\* C16: for every 4-byte magic, Display renders each run of printable bytes
\* as one group and each non-printable byte as \xHH (two lower-case
\* hexadecimal digits), with exactly one space between adjacent groups and
\* nothing before the first group; 7F 45 4C 46 gives "\x7f ELF", 01 41 02 62
\* gives "\x01 A \x02 b" and 01 02 03 41 gives "\x01 \x02 \x03 A".
\* Printable is read as is_ascii_graphic, the reading the code uses.
MagicGroupText(byte) ==
  IF 33 <= byte /\ byte <= 126 THEN escape_default(byte)
  ELSE << 92, 120 >>
         \o << (IF (byte \div 16) < 10 THEN 48 ELSE 87) + (byte \div 16),
               (IF (byte % 16) < 10 THEN 48 ELSE 87) + (byte % 16) >>
MagicSeparator(m, i) ==
  IF i > 1 /\ ~(33 <= m[i - 1] /\ m[i - 1] <= 126 /\ 33 <= m[i] /\ m[i] <= 126)
  THEN << 32 >> ELSE <<>>
MagicRendering(m) ==
  MagicSeparator(m, 1) \o MagicGroupText(m[1])
    \o MagicSeparator(m, 2) \o MagicGroupText(m[2])
    \o MagicSeparator(m, 3) \o MagicGroupText(m[3])
    \o MagicSeparator(m, 4) \o MagicGroupText(m[4])
C16_MagicRendering ==
  Done("to_string") =>
    /\ result = MagicRendering(call.magic)
    /\ call.magic = << 127, 69, 76, 70 >>
         => result = << 92, 120, 55, 102, 32, 69, 76, 70 >>
    /\ call.magic = << 1, 65, 2, 98 >>
         => result = << 92, 120, 48, 49, 32, 65, 32, 92, 120, 48, 50, 32, 98 >>
    /\ call.magic = << 1, 2, 3, 65 >>
         => result = << 92, 120, 48, 49, 32, 92, 120, 48, 50, 32,
                        92, 120, 48, 51, 32, 65 >>

\* C17: into_constant(v) is the named constant (name, v, meaning) when v is
\* a declared single value or one of the two ends of a declared range, an
\* unknown constant with the range's meaning when v lies strictly between
\* the ends of a declared range, and an unknown constant without meaning for
\* every other v.  In the test module: 0, 1, 101, 0xA0, 0xBC are TR_DADA,
\* TR_FAFA, TR_GAGA, TR_LOHAHA, TR_HIJAJA; 0xA5 and 0xBB are unknown with
\* the meanings "Haha jaja" and "Jaja kaka"; 3 is unknown without meaning.
DeclaredNamed(module) ==
  {Single(c.name, c.value, c.meaning) :
     c \in {Singles(module)[i] : i \in 1..Len(Singles(module))}}
    \cup {Single(r.lo_name, r.lo, r.meaning) :
            r \in {Ranges(module)[i] : i \in 1..Len(Ranges(module))}}
    \cup {Single(r.hi_name, r.hi, r.meaning) :
            r \in {Ranges(module)[i] : i \in 1..Len(Ranges(module))}}
DeclaredRanges(module) == {Ranges(module)[i] : i \in 1..Len(Ranges(module))}
C17_IntoConstant ==
  Done("into_constant") =>
    LET v == call.value
        named == {c \in DeclaredNamed(call.module) : c.value = v}
        inside == {r \in DeclaredRanges(call.module) : r.lo < v /\ v < r.hi}
    IN /\ named # {} =>
            \E c \in named : result = Named(c.name, v, SomeOf(c.meaning))
       /\ (named = {} /\ inside # {}) =>
            \E r \in inside : result = Unknown(v, SomeOf(r.meaning))
       /\ (named = {} /\ inside = {}) => result = Unknown(v, None)
       /\ call.module = "dada" =>
            /\ v = 0 => result = Named("TR_DADA", 0, SomeOf("Dada fafa"))
            /\ v = 1 => result = Named("TR_FAFA", 1, SomeOf("Fafa gaga"))
            /\ v = 101 => result = Named("TR_GAGA", 101, SomeOf("Gaga haha"))
            /\ v = 160 => result = Named("TR_LOHAHA", 160, SomeOf("Haha jaja"))
            /\ v = 188 => result = Named("TR_HIJAJA", 188, SomeOf("Jaja kaka"))
            /\ v = 165 => result = Unknown(165, SomeOf("Haha jaja"))
            /\ v = 187 => result = Unknown(187, SomeOf("Jaja kaka"))
            /\ v = 3 => result = Unknown(3, None)

C17_Witness ==
  /\ Done("into_constant") /\ call.module = "dada" /\ call.value = 168
  /\ result = Named("TR_HIHAHA", 168, SomeOf("Haha jaja"))

\* C18: creating a MappedFile with length 0 fails with an InvalidInput error
\* and at no moment on that path has mmap been called; every mmap call has a
\* non-zero length and every MappedFile that exists has a non-zero length.
MmapCalls == {k \in 1..Len(log) : log[k].op = "mmap"}
C18_ZeroLength ==
  (call.op \in {"new", "try_from"} /\ "length" \in DOMAIN call) =>
    /\ call.length = 0 =>
         /\ MmapCalls = {}
         /\ object = Unset
         /\ pc \in {"new", "done"}
         /\ pc = "done" => result = IoError("InvalidInput")
    /\ \A k \in MmapCalls : log[k].length # 0
    /\ object # Unset => object.length # 0 /\ object.length = call.length

C18_Witness ==
  /\ Done("try_from") /\ "length" \in DOMAIN call /\ call.length = 0
  /\ call.fd = 1
  /\ result = IoError("InvalidInput")
  /\ log = << [op |-> "metadata", fd |-> 1] >>

\* C19: parse_elf returns one and the same error value, BytesError::Empty,
\* for a bad or missing magic, for missing class/data bytes, for an invalid
\* class/data pair and for a header read out of range: the returned error
\* does not tell these rejections apart.
C19_GenericError ==
  Done("parse_elf") =>
    /\ ~StartsWithMagic => result = Empty
    /\ (StartsWithMagic /\ InputLen < 6) => result = Empty
    /\ (StartsWithMagic /\ InputLen >= 6 /\ ~ValidPair) => result = Empty
    /\ \A c \in {1, 2}, d \in {1, 2} :
         (StartsWithMagic /\ HasPair(c, d) /\ InputLen < ClassHeaderBytes(c))
           => result = Empty
    /\ result = Empty => DOMAIN result = {"kind", "error"}

C19_Witness ==
  /\ Done("parse_elf") /\ StartsWithMagic /\ InputLen = 4
  /\ reads = << Request(4, 0), Request(2, 4) >>
  /\ format = None /\ result = Empty

\* C20: ElfSectionTable::parse fails for every byte source and every header:
\* it returns Err(()) when e_shentsize differs from the size of ElfSection
\* (40 bytes in the 32-bit family, 64 in the 64-bit one), it goes on to the
\* unwritten part exactly when e_shentsize matches and returns Err(()) there
\* too; it never returns a section table.
SectionBytes(family) == IF family = "ElfType32" THEN 40 ELSE 64
C20_SectionTableStub ==
  call.op = "ElfSectionTable::parse" =>
    /\ pc \in {"todo", "done"}
    /\ pc = "todo" <=> (call.e_shentsize = SectionBytes(call.family) /\ result = Unset)
    /\ pc = "done" => result = ErrUnit
    /\ result.kind # "Ok"

C20_Witness ==
  /\ Done("ElfSectionTable::parse") /\ call.family = "ElfType64"
  /\ call.endian = "BE" /\ target = "little" /\ ~unaligned
  /\ call.e_shentsize = 64 /\ call.header.e_shentsize = << 64, 0 >>
  /\ InputLen = 9 /\ result = ErrUnit

\* C24: in the aligned configuration Pod::from_bytes checks the size before
\* the alignment: a slice that has both the wrong length and a misaligned
\* start address fails with SizeOfMismatch (carrying the slice length and the
\* size of the type) and never with AlignOfMismatch.
C24_SizeBeforeAlign ==
  (Done("from_bytes") /\ ~unaligned
     /\ InputLen # size_of(call.type, unaligned)
     /\ data.ptr % align_of(call.type, unaligned) # 0)
    => /\ result = SizeOfMismatch(InputLen, size_of(call.type, unaligned))
       /\ result # AlignOfMismatch(data.ptr, align_of(call.type, unaligned))

C24_Witness ==
  /\ Done("from_bytes") /\ ~unaligned /\ call.type = HeaderType("ElfType64")
  /\ InputLen = 52 /\ data.ptr = 3
  /\ align_of(call.type, unaligned) = 8
  /\ result = SizeOfMismatch(52, 64)

\* C26 (as claimed): the two Magic renderers produce the same text for every
\* 4-byte input: whatever renderer made the text, the other renderer makes
\* the same text of the same bytes, also when the first byte is a space or
\* another non-graphic byte.
C26_RenderersAgree ==
  Done("to_string") =>
    \A other \in Renderers : result = Display(other, call.magic)

\* C25: in the unaligned configuration a buffer with the magic and a valid
\* class/data pair parses successfully if and only if it is at least as long
\* as the header of its class (52 bytes for class 1, 64 for class 2); the
\* variant is the one of the pair, whatever the other bytes of the header
\* are; nothing is read beyond the header and the parsed header is the first
\* 52 or 64 bytes of the buffer.
C25_AcceptanceUnaligned ==
  \A c \in {1, 2}, d \in {1, 2} :
    (Done("parse_elf") /\ unaligned /\ StartsWithMagic /\ HasPair(c, d)) =>
      /\ result.kind = "Ok" <=> InputLen >= ClassHeaderBytes(c)
      /\ result.kind \in {"Ok", "Err"}
      /\ result.kind = "Ok" =>
           /\ result.variant = PairVariant(c, d)
           /\ result.header.ptr = data.ptr
           /\ result.header.bytes = SubSeq(data.bytes, 1, ClassHeaderBytes(c))
      /\ \A n \in 1..Len(reads) :
           reads[n].offset + reads[n].size <= ClassHeaderBytes(c)

C25_Witness ==
  /\ Done("parse_elf") /\ unaligned /\ StartsWithMagic /\ HasPair(2, 1)
  /\ InputLen = 66 /\ data.ptr = 1 /\ data.bytes[53] = 255
  /\ result.kind = "Ok" /\ result.variant = "Elf64Le"

\* what the cursor claims say, read off the items the iterator was built on
Items == object.iterator.items
ItemCount == Len(Items)
After(index) == IF index = None THEN 0 ELSE index.value + 1

\* C21: a Cursor over a finite iterator yielding s[0..n-1]: next() returns
\* the item after the current one and moves onto it while one remains, and
\* otherwise returns None and parks at the end (index n), however often it
\* is repeated; prev() returns the item before the current one and moves
\* onto it, and returns None and parks before the first item when the cursor
\* is on the first item or before it; where there is an item at all, the
\* prev() that follows a next() that returned None returns s[n-1], and the
\* next() that follows a prev() that returned None returns s[0].
C21_Bidirectional ==
  [][/\ call'.op = "Cursor::next" =>
          IF After(object.index) < ItemCount
          THEN /\ result' = SomeOf(Items[After(object.index) + 1])
               /\ object'.index = SomeOf(After(object.index))
          ELSE /\ result' = None
               /\ object'.index = SomeOf(ItemCount)
     /\ call'.op = "Cursor::prev" =>
          IF object.index # None /\ object.index.value >= 1
          THEN /\ result' = SomeOf(Items[object.index.value])
               /\ object'.index = SomeOf(object.index.value - 1)
          ELSE /\ result' = None
               /\ object'.index = None
     /\ (call.op = "Cursor::next" /\ result = None /\ call'.op = "Cursor::prev"
           /\ ItemCount >= 1)
          => result' = SomeOf(Items[ItemCount])
     /\ (call.op = "Cursor::prev" /\ result = None /\ call'.op = "Cursor::next"
           /\ ItemCount >= 1)
          => result' = SomeOf(Items[1])
    ]_vars

C21_Witness ==
  /\ call.op = "Cursor::prev" /\ Items = << 1, 2, 2 >>
  /\ object.iterator.kind = "resuming" /\ object.iterator_done
  /\ object.index = SomeOf(2) /\ result = SomeOf(2)
  /\ object.vector = << 1, 2, 2 >>

\* C22: fork() yields a cursor at the position of the forked one over the
\* same items and changes no other cursor; next() and prev() on one cursor
\* leave the position of every other fork unchanged, and whichever fork
\* asks, the item at a position is the same item of the one sequence;
\* merge(other) sets the position of the receiver to the position of other
\* and changes nothing else (other is consumed).
C22_ForkMerge ==
  [][/\ (call'.op = "SharedCursor::fork" /\ cursors' # cursors) =>
          /\ DOMAIN cursors' = DOMAIN cursors \cup {call'.new}
          /\ cursors'[call'.new] = cursors[call'.on]
          /\ \A c \in DOMAIN cursors : cursors'[c] = cursors[c]
          /\ object' = object
     /\ (call'.op \in {"SharedCursor::next", "SharedCursor::prev"}) =>
          /\ DOMAIN cursors' = DOMAIN cursors
          /\ \A c \in DOMAIN cursors \ {call'.on} : cursors'[c] = cursors[c]
          /\ result'.kind = "Some" =>
               /\ cursors'[call'.on].kind = "Some"
               /\ cursors'[call'.on].value < ItemCount
               /\ result' = SomeOf(Items[cursors'[call'.on].value + 1])
          /\ object'.iterator.items = Items
     /\ (call'.op = "SharedCursor::merge" /\ cursors' # cursors) =>
          /\ DOMAIN cursors' = DOMAIN cursors \ {call'.other}
          /\ cursors'[call'.on] = cursors[call'.other]
          /\ \A c \in DOMAIN cursors' \ {call'.on} : cursors'[c] = cursors[c]
          /\ object' = object
    ]_vars

C22_Witness ==
  /\ call.op = "SharedCursor::merge" /\ call.on = "c1" /\ call.other = "c2"
  /\ DOMAIN cursors = {"c1", "c3"}
  /\ cursors["c1"] = None /\ cursors["c3"] = SomeOf(3)
  /\ Items = << 1, 2, 1 >> /\ object.vector = Items /\ object.iterator_done

\* C27 (as claimed): on a SharedCursor whose iterator yields no item, next()
\* returns None and leaves the cursor at position 0, the subtraction
\* `vector.len() - 1` in Cursor::nth never goes below zero, nothing panics,
\* and every later next() or prev() returns None.
C27_EmptyNext ==
  (call.op \in {"SharedCursor::next", "SharedCursor::prev"} /\ Items = <<>>) =>
    /\ result = None
    /\ call.op = "SharedCursor::next" => cursors[call.on] = SomeOf(0)
    /\ log = <<>>

\* C28: whatever next(), prev() and nth() calls are made on a Cursor, the
\* wrapped iterator is never asked again after it has returned None, the
\* vector holds exactly the items the iterator has yielded so far, once each
\* and in the order they were yielded, and the index is None or at most the
\* length of the vector.
C28_Buffering ==
  /\ ~object.iterator.called_after_none
  /\ object.iterator.returned_none => object.iterator_done
  /\ object.vector = object.iterator.yielded
  /\ object.vector = SubSeq(Items, 1, Len(object.vector))
  /\ object.index = None \/ object.index.value <= Len(object.vector)

C28_Witness ==
  /\ call.op = "Cursor::nth" /\ call.index = 4 /\ Items = << 2, 2, 1 >>
  /\ object.iterator.kind = "resuming" /\ object.iterator.returned_none
  /\ object.iterator_done /\ object.vector = << 2, 2, 1 >>
  /\ object.index = SomeOf(0) /\ result = EndReached(3)

\* what the claim says the table looks like, from the rows handed to row():
\* the width of a column is the length in characters of its widest cell
ColumnWidth(rows, j) ==
  LET lengths == {Len(rows[r][j].string) : r \in {r \in 1..Len(rows) : Len(rows[r]) >= j}}
  IN CHOOSE w \in lengths : \A l \in lengths : l <= w
RECURSIVE CellsText(_, _, _)
CellsText(rows, r, n) ==
  IF n = 0 THEN <<>>
  ELSE CellsText(rows, r, n - 1)
         \o rows[r][n].string
         \o Spaces(ColumnWidth(rows, n) - Len(rows[r][n].string))
         \o << 32 >>
RECURSIVE RowsText(_, _)
RowsText(rows, n) ==
  IF n = 0 THEN <<>>
  ELSE RowsText(rows, n - 1)
         \o (IF rows[n] = <<>> THEN <<>>
             ELSE << 10, 32, 32 >> \o CellsText(rows, n, Len(rows[n])))

\* C23 (as claimed): the output of a table is the title, then for each row
\* with at least one cell a new line and two spaces followed by its cells,
\* each left-aligned, padded to the width of the widest cell of its column
\* over all rows and followed by one space, and a final newline.
C23_TableOutput ==
  (Done("finish") /\ result = OkUnit) =>
    object.formatter = Title \o RowsText(log, Len(log)) \o << 10 >>

\* C29: all-or-nothing token parsing.  A parse that returns None leaves the
\* caller's cursor where it was before the call; a parse that returns Some
\* leaves it after the tokens it consumed: further on and still on an entry
\* of the buffer, and for a single token exactly one entry further, past an
\* entry of the token's kind; a peek never moves the cursor.  No other
\* cursor is touched by either.
C29_AllOrNothing ==
  [][call'.op \in {"parse", "peek"} =>
       LET on == call'.on
           before == cursors[on]
           after == cursors'[on]
       IN /\ DOMAIN cursors' = DOMAIN cursors
          /\ \A c \in DOMAIN cursors \ {on} : cursors'[c] = cursors[c]
          /\ call'.op = "peek" => after = before
          /\ result'.kind = "None" => after = before
          /\ result'.kind = "Some" =>
               /\ after.current > before.current
               /\ after.current < Len(object)
               /\ after.stop = before.stop
               /\ call'.type \in TokenNames \cup EntryKinds =>
                    /\ after.current = before.current + 1
                    /\ object[after.current].kind \in {call'.type, TokenKind(call'.type)}]_vars
\* GenericParams::parse has returned None on `< T` after `<` and the
\* parameter `T` were parsed on its fork, and the cursor is still on `<`
C29_Witness ==
  /\ call.op = "parse" /\ call.type = "GenericParams" /\ result.kind = "None"
  /\ cursors[call.on].current = 0
  /\ Parse("Lt", object, cursors[call.on]).kind = "Some"
  /\ Parse("GenericParam", object, Parse("Lt", object, cursors[call.on]).head).kind = "Some"

\* C30: the End sentinel.  The buffer ends with End and holds no other End;
\* every cursor is on an entry of the buffer, at most on End; taking any kind
\* of entry on End yields None; a step of the cursor panics exactly when it
\* is a direct step from End, so no parse or take panics that way.
C30_EndSentinel ==
  /\ Len(object) >= 1 /\ object[Len(object)] = End
  /\ \A i \in 1..(Len(object) - 1) : object[i] # End
  /\ \A c \in DOMAIN cursors :
       /\ cursors[c].current \in 0..(Len(object) - 1)
       /\ cursors[c].stop = Len(object)
       /\ is_end(object, cursors[c]) =>
            \A kind \in EntryKinds : take(kind, object, cursors[c]) = None
  /\ (call.op = "take" /\ is_end(object, cursors[call.on])) => result = None
  /\ (result.kind = "Panic" /\ result.cause = "step") =>
       call.op = "step" /\ is_end(object, cursors[call.on])
  /\ (call.op = "step" /\ is_end(object, cursors[call.on])) => result.kind = "Panic"
\* a take on a cursor that was moved to End, three entries or more from the
\* start, has yielded None
C30_Witness ==
  /\ call.op = "take" /\ result = None
  /\ Len(object) >= 4 /\ cursors[call.on].current = Len(object) - 1

====
